---------------------------- MODULE Spec2Model ----------------------------
(***************************************************************************)
(* Day 12 exact-cover packing solver (src/day12/solution_fixed.py): shape  *)
(* orientations, placement masks, the exact-cover rows of a region, the    *)
(* DLX backtracking search run step by step in a worker process, and the   *)
(* parent's loop over the regions with its per-region timeout.  Day 12     *)
(* backtracking solver (src/day12/solution.py): can_fill_region and the    *)
(* loop of solve_all.  A run is a run of one of the two programs.  Day 7   *)
(* timeline counts (src/test_day7.py, src/day07/solution.py), day 1 dial   *)
(* rotations (src/day1.py, src/day01/solution.py), day 8 circuits          *)
(* (src/day8.py, src/day08/solution.py) and the day 5 input parser         *)
(* (src/day05/solution.py) are functions applied to bounded inputs.        *)
(*                                                                         *)
(* Representation.  A cell is <<r, c>>.  A normalized orientation, in the  *)
(* code a sorted tuple of distinct cells, is the set of its cells.  A      *)
(* placement mask is the integer the code computes (bit r*w+c per cell).   *)
(* Python's True / False / None verdicts are the strings "True", "False",  *)
(* "None".  Columns and rows of the exact-cover matrix are numbered from 0 *)
(* as in the code.                                                         *)
(***************************************************************************)
EXTENDS Integers, Sequences, FiniteSets, TLC

\* ------------------------------------------------------------------ bounds
\* Boards of the single-region runs have at most MaxCells cells and at most
\* MaxInstances required shape instances.
MaxCells == 6
MaxInstances == 4
\* Batches have at most MaxRegions regions, each with at most BatchMaxInstances
\* required instances.
MaxRegions == 2
BatchMaxInstances == 2
\* The shapes the geometry functions are applied to on their own have their
\* cells in (0..MaxCoord) x (0..MaxCoord) and at most MaxShapeCells cells; the
\* boards have sides of at most MaxBoardSide.
MaxCoord == 2
MaxShapeCells == 4
MaxBoardSide == 3

\* ------------------------------------------------------------- arithmetic
RECURSIVE Pow2(_)
Pow2(n) == IF n = 0 THEN 1 ELSE 2 * Pow2(n - 1)

SetMin(S) == CHOOSE x \in S : \A y \in S : x <= y
SetMax(S) == CHOOSE x \in S : \A y \in S : x >= y

RECURSIVE SumSeq(_)
SumSeq(s) == IF s = <<>> THEN 0 ELSE Head(s) + SumSeq(Tail(s))

\* sorted(S) for a finite set of integers
RECURSIVE sorted(_)
sorted(S) == IF S = {} THEN <<>> ELSE <<SetMin(S)>> \o sorted(S \ {SetMin(S)})

RECURSIVE Flatten(_)
Flatten(ss) == IF ss = <<>> THEN <<>> ELSE Head(ss) \o Flatten(Tail(ss))

SeqRange(s) == {s[i] : i \in 1..Len(s)}

\* --------------------------------------------------------------- geometry
\* shape_to_cells: the (r, c) of every '#' of the raster, rows and columns
\* numbered from 0.
shape_to_cells(rows) ==
  UNION {{<<r - 1, c - 1>> : c \in {k \in 1..Len(rows[r]) : rows[r][k] = "#"}} :
            r \in 1..Len(rows)}

normalize(cells) ==
  IF cells = {} THEN {}
  ELSE LET minr == SetMin({p[1] : p \in cells})
           minc == SetMin({p[2] : p \in cells})
       IN {<<p[1] - minr, p[2] - minc>> : p \in cells}

\* Mutant of rotate: the rotated cells are not normalized.
rotate_no_normalize(cells) == {<<p[2], 0 - p[1]>> : p \in cells}

\* (r, c) -> (c, -r)
rotate(cells) == normalize({<<p[2], 0 - p[1]>> : p \in cells})

\* Mutant of flip: the mirrored cells are not normalized.
flip_no_normalize(cells) == {<<p[1], 0 - p[2]>> : p \in cells}

\* (r, c) -> (r, -c)
flip(cells) == normalize({<<p[1], 0 - p[2]>> : p \in cells})

RECURSIVE OrientationLoop(_, _, _)
OrientationLoop(cur, k, s) ==
  IF k = 0 THEN s
  ELSE LET nxt == rotate(cur)
       IN OrientationLoop(nxt, k - 1, s \cup {nxt, flip(nxt)})

\* The set s after the four iterations (the code returns it as a sorted list).
all_orientations(cells) == OrientationLoop(normalize(cells), 4, {})

\* Mutant of placement_mask: the bit index is computed with the height as the
\* row stride.
placement_mask_stride_h(cells, w, h, top, left) ==
  IF \E p \in cells : \/ top + p[1] < 0 \/ top + p[1] >= h
                      \/ left + p[2] < 0 \/ left + p[2] >= w
  THEN -1
  ELSE LET idxs == {(top + p[1]) * h + (left + p[2]) : p \in cells}
       IN SumSeq([i \in 1..Len(sorted(idxs)) |-> Pow2(sorted(idxs)[i])])

\* placement_mask: -1 stands for None (a cell out of bounds).
placement_mask(cells, w, h, top, left) ==
  IF \E p \in cells : \/ top + p[1] < 0 \/ top + p[1] >= h
                      \/ left + p[2] < 0 \/ left + p[2] >= w
  THEN -1
  ELSE LET idxs == {(top + p[1]) * w + (left + p[2]) : p \in cells}
       IN SumSeq([i \in 1..Len(sorted(idxs)) |-> Pow2(sorted(idxs)[i])])

\* Mutant of all_placements_for_orientation: the anchor ranges stop one short.
all_placements_one_short(ori, w, h) ==
  IF ori = {} THEN [err |-> TRUE, masks |-> {}]
  ELSE LET maxr == SetMax({p[1] : p \in ori})
           maxc == SetMax({p[2] : p \in ori})
           pms == {placement_mask(ori, w, h, a[1], a[2]) :
                      a \in (0..(h - maxr - 2)) \X (0..(w - maxc - 2))}
       IN [err |-> FALSE, masks |-> {pm \in pms : pm # -1}]

\* all_placements_for_orientation: max() of an empty orientation raises
\* ValueError (err); otherwise the masks of the anchors the two loops visit.
all_placements_for_orientation(ori, w, h) ==
  IF ori = {} THEN [err |-> TRUE, masks |-> {}]
  ELSE LET maxr == SetMax({p[1] : p \in ori})
           maxc == SetMax({p[2] : p \in ori})
           pms == {placement_mask(ori, w, h, a[1], a[2]) :
                      a \in (0..(h - maxr - 1)) \X (0..(w - maxc - 1))}
       IN [err |-> FALSE, masks |-> {pm \in pms : pm # -1}]

\* Mutant of placements_in_order: the loop over left stops one short.
placements_left_one_short(ori, w, h) ==
  LET maxr == SetMax({p[1] : p \in ori})
      maxc == SetMax({p[2] : p \in ori})
      pms == Flatten([t \in 1..(h - maxr) |->
                        [l \in 1..(w - maxc - 1) |-> placement_mask(ori, w, h, t - 1, l - 1)]])
  IN SelectSeq(pms, LAMBDA pm : pm # -1)

\* The list placements that all_placements_for_orientation returns for an
\* orientation with cells, in the order of its two loops (lines 117-123).
placements_in_order(ori, w, h) ==
  LET maxr == SetMax({p[1] : p \in ori})
      maxc == SetMax({p[2] : p \in ori})
      pms == Flatten([t \in 1..(h - maxr) |->
                        [l \in 1..(w - maxc) |-> placement_mask(ori, w, h, t - 1, l - 1)]])
  IN SelectSeq(pms, LAMBDA pm : pm # -1)

\* The bit indices of a mask in ascending order (the while loop of lines 286-289).
RECURSIVE BitsOf(_, _)
BitsOf(bitmask, idxbit) ==
  IF bitmask = 0 THEN <<>>
  ELSE (IF bitmask % 2 = 1 THEN <<idxbit>> ELSE <<>>) \o BitsOf(bitmask \div 2, idxbit + 1)

\* ---------------------------------------------------- exact-cover instance
\* counts, padded with zeros to max_shape + 1 entries (lines 245-246, 328-330).
PadCounts(counts, max_shape) ==
  IF Len(counts) <= max_shape
  THEN counts \o [k \in 1..(max_shape + 1 - Len(counts)) |-> 0]
  ELSE counts

\* The placements of one shape: the masks of all its orientations, as a set
\* (lines 256-260); err when all_placements_for_orientation raises.
PlacementsOfShape(oris, w, h) ==
  [err |-> \E ori \in oris : all_placements_for_orientation(ori, w, h).err,
   masks |-> UNION {all_placements_for_orientation(ori, w, h).masks : ori \in oris}]

\* Mutant of PlacementLoop: a required shape without a placement is let through.
RECURSIVE PlacementLoopNoZeroCheck(_, _, _, _, _)
PlacementLoopNoZeroCheck(idx, w, h, shape_oris_, counts) ==
  IF idx \notin DOMAIN shape_oris_ THEN "ok"
  ELSE IF PlacementsOfShape(shape_oris_[idx], w, h).err THEN "Error"
  ELSE PlacementLoopNoZeroCheck(idx + 1, w, h, shape_oris_, counts)

\* The loop of lines 255-263 from shape idx on: "Error" when a placement
\* computation raises, "ZeroPlacementShape" at the first required shape without
\* a placement, "ok" when the loop runs to its end.
RECURSIVE PlacementLoop(_, _, _, _, _)
PlacementLoop(idx, w, h, shape_oris_, counts) ==
  IF idx \notin DOMAIN shape_oris_ THEN "ok"
  ELSE LET P == PlacementsOfShape(shape_oris_[idx], w, h)
       IN IF P.err THEN "Error"
          ELSE IF counts[idx + 1] > 0 /\ P.masks = {} THEN "ZeroPlacementShape"
          ELSE PlacementLoop(idx + 1, w, h, shape_oris_, counts)

\* instance_map: the shape index of every required instance, in counts order
\* (lines 271-274).
instance_map(counts) ==
  Flatten([i \in 1..Len(counts) |-> [k \in 1..counts[i] |-> i - 1]])

\* The rows of one instance: one per placement of its shape, in ascending mask
\* order, each the covered cell columns followed by the instance column
\* (lines 281-291).
RowsOfInstance(inst_col, masks) ==
  [j \in 1..Len(sorted(masks)) |-> BitsOf(sorted(masks)[j], 0) \o <<inst_col>>]

\* area_per_shape[idx]: the number of cells of the shape's first orientation
\* (line 248); every orientation of a shape has the same number of cells.
area_per_shape(shape_oris_) ==
  [idx \in DOMAIN shape_oris_ |-> Cardinality(CHOOSE o \in shape_oris_[idx] : TRUE)]

\* Mutant of total_cells_needed: the counts are summed without the areas.
total_instances_needed(shape_oris_, counts) ==
  SumSeq([i \in 1..Cardinality(DOMAIN shape_oris_) |-> counts[i]])

\* total_cells_needed (line 249): the cells the required instances take.
total_cells_needed(shape_oris_, counts) ==
  SumSeq([i \in 1..Cardinality(DOMAIN shape_oris_) |->
            counts[i] * area_per_shape(shape_oris_)[i - 1]])

\* build_exact_cover_for_region with the instance columns given in the order
\* imap.  kind names the return taken: line 251 ("AreaCheckFailed"), line 263
\* ("ZeroPlacementShape"), line 293 ("NoRows"), line 294 ("ok"), or an
\* exception raised on the way ("Error").
build_exact_cover_in_order(w, h, shape_oris_, counts_, imap) ==
  LET max_shape == SetMax(DOMAIN shape_oris_)
      counts == PadCounts(counts_, max_shape)
      loop == PlacementLoop(0, w, h, shape_oris_, counts)
      cell_cols == w * h
      rows == Flatten([i \in 1..Len(imap) |->
                RowsOfInstance(cell_cols + i - 1,
                               PlacementsOfShape(shape_oris_[imap[i]], w, h).masks)])
      none == [kind |-> "", n_cols |-> 0, rows |-> <<>>]
  IN IF total_cells_needed(shape_oris_, counts) > w * h
     THEN [none EXCEPT !.kind = "AreaCheckFailed"]
     ELSE IF loop # "ok" THEN [none EXCEPT !.kind = loop]
     ELSE IF Len(rows) = 0 THEN [none EXCEPT !.kind = "NoRows"]
     ELSE [kind |-> "ok", n_cols |-> cell_cols + Len(imap), rows |-> rows]

\* build_exact_cover_for_region: the instances are expanded in counts order.
build_exact_cover_for_region(w, h, shape_oris_, counts_) ==
  build_exact_cover_in_order(w, h, shape_oris_, counts_,
      instance_map(PadCounts(counts_, SetMax(DOMAIN shape_oris_))))

\* -------------------------------------------------------------------- DLX
\* best_count's initial value in choose_column.
BestCountInit == 1000000000

\* DLX.__init__: every column and every row active, no row selected.
DLX_init(n_cols, rows) ==
  [n_cols |-> n_cols, rows |-> rows,
   col_active |-> [c \in 0..(n_cols - 1) |-> TRUE],
   row_active |-> [r \in 0..(Len(rows) - 1) |-> TRUE],
   solution |-> <<>>, found |-> FALSE]

\* The state of a worker before DLX(ncols, rows) is constructed.
NoDLX == DLX_init(0, <<>>)

\* self.col_rows[c]: the indices of the rows that cover column c, ascending.
col_rows(d, c) ==
  SelectSeq([i \in 1..Len(d.rows) |-> i - 1], LAMBDA r : c \in SeqRange(d.rows[r + 1]))

\* The active rows among col_rows[c], in order.
ActiveRowsOf(d, c) == SelectSeq(col_rows(d, c), LAMBDA r : d.row_active[r])

\* The loop of choose_column from column c on.
RECURSIVE ChooseScan(_, _, _, _)
ChooseScan(d, c, best, best_count) ==
  IF c >= d.n_cols THEN best
  ELSE IF ~d.col_active[c] THEN ChooseScan(d, c + 1, best, best_count)
  ELSE LET cnt == Len(ActiveRowsOf(d, c))
       IN IF cnt < best_count
          THEN (IF cnt <= 1 THEN c ELSE ChooseScan(d, c + 1, c, cnt))
          ELSE ChooseScan(d, c + 1, best, best_count)

choose_column(d) == ChooseScan(d, 0, -1, BestCountInit)

\* Mutant of cover: the column is deactivated, the rows that cover it are not.
cover_column_only(d, c) ==
  [dlx |-> [d EXCEPT !.col_active[c] = FALSE], impacted |-> <<>>]

\* cover(c): deactivate column c and every active row that covers it; the
\* rows deactivated are returned as impacted.
cover(d, c) ==
  LET impacted_rows == ActiveRowsOf(d, c)
  IN [dlx |-> [d EXCEPT !.col_active[c] = FALSE,
                        !.row_active = [r \in DOMAIN d.row_active |->
                                          d.row_active[r] /\ r \notin SeqRange(impacted_rows)]],
      impacted |-> impacted_rows]

\* Mutant of uncover: the column is reactivated, the rows are not.
uncover_column_only(d, c, rows_list) == [d EXCEPT !.col_active[c] = TRUE]

\* uncover(c, rows_list): reactivate the column and the given rows.
uncover(d, c, rows_list) ==
  [d EXCEPT !.col_active[c] = TRUE,
            !.row_active = [r \in DOMAIN d.row_active |->
                              d.row_active[r] \/ r \in SeqRange(rows_list)]]

\* Lines 215-217: cover the columns of the selected row one after the other;
\* impacted_per_col maps each to the rows its cover deactivated.
RECURSIVE CoverColumns(_, _, _)
CoverColumns(d, cols, impacted_per_col) ==
  IF cols = <<>> THEN [dlx |-> d, impacted_per_col |-> impacted_per_col]
  ELSE LET cv == cover(d, Head(cols))
       IN CoverColumns(cv.dlx, Tail(cols), (Head(cols) :> cv.impacted) @@ impacted_per_col)

\* Lines 225-226: uncover the columns in reverse order.
RECURSIVE UncoverColumns(_, _, _)
UncoverColumns(d, cols, impacted_per_col) ==
  IF cols = <<>> THEN d
  ELSE LET col == cols[Len(cols)]
       IN UncoverColumns(uncover(d, col, impacted_per_col[col]),
                         SubSeq(cols, 1, Len(cols) - 1), impacted_per_col)

\* Mutant of AllColumnsInactive: "not all active" instead of "all not active".
NotAllColumnsActive(d) == \E c \in DOMAIN d.col_active : ~d.col_active[c]

\* Line 196: all(not a for a in self.col_active).
AllColumnsInactive(d) == \A c \in DOMAIN d.col_active : ~d.col_active[c]

\* Mutant of search_rows: only the first row covering the column is tried.
RECURSIVE search_first_row_only(_, _, _)
search_first_row_only(d, rows_covering, k) ==
  IF k > 1 THEN [ok |-> FALSE, dlx |-> d]
  ELSE LET r == rows_covering[k]
           cv == CoverColumns(d, d.rows[r + 1], <<>>)
           sel == [cv.dlx EXCEPT !.solution = Append(d.solution, r)]
           c == choose_column(sel)
           rc == IF c = -1 THEN <<>> ELSE ActiveRowsOf(sel, c)
       IN IF AllColumnsInactive(sel) THEN [ok |-> TRUE, dlx |-> [sel EXCEPT !.found = TRUE]]
          ELSE IF rc = <<>> THEN [ok |-> FALSE, dlx |-> sel]
          ELSE search_first_row_only(sel, rc, 1)

\* DLX.search (lines 194-227) as a function of the matrix: search is one call,
\* search_rows its loop over rows_covering from the k-th row on.  The result
\* is the returned value and the matrix as the call leaves it.
RECURSIVE search_rows(_, _, _)
search_rows(d, rows_covering, k) ==
  IF k > Len(rows_covering) THEN [ok |-> FALSE, dlx |-> d]
  ELSE LET r == rows_covering[k]
           cv == CoverColumns(d, d.rows[r + 1], <<>>)
           sel == [cv.dlx EXCEPT !.solution = Append(d.solution, r)]
           c == choose_column(sel)
           rc == IF c = -1 THEN <<>> ELSE ActiveRowsOf(sel, c)
           sub == IF AllColumnsInactive(sel)
                  THEN [ok |-> TRUE, dlx |-> [sel EXCEPT !.found = TRUE]]
                  ELSE IF rc = <<>> THEN [ok |-> FALSE, dlx |-> sel]
                  ELSE search_rows(sel, rc, 1)
           popped == [sub.dlx EXCEPT !.solution = SubSeq(@, 1, Len(@) - 1)]
       IN IF sub.ok THEN sub
          ELSE search_rows(UncoverColumns(popped, d.rows[r + 1], cv.impacted_per_col),
                           rows_covering, k + 1)

search(d) ==
  LET c == choose_column(d)
      rc == IF c = -1 THEN <<>> ELSE ActiveRowsOf(d, c)
  IN IF AllColumnsInactive(d) THEN [ok |-> TRUE, dlx |-> [d EXCEPT !.found = TRUE]]
     ELSE IF rc = <<>> THEN [ok |-> FALSE, dlx |-> d]
     ELSE search_rows(d, rc, 1)

\* region_worker (lines 298-310) as a function of its arguments, with the
\* instance columns in the order imap: the verdict it puts on the queue.
region_worker_in_order(w, h, counts, shape_oris_, imap) ==
  LET b == build_exact_cover_in_order(w, h, shape_oris_, counts, imap)
  IN IF b.kind = "Error" THEN "None"
     ELSE IF b.kind # "ok" THEN "False"
     ELSE IF search(DLX_init(b.n_cols, b.rows)).ok THEN "True" ELSE "False"

\* ------------------------------------------------- src/day12/solution.py
normalize_cells(cells) ==
  IF cells = {} THEN {}
  ELSE LET minr == SetMin({p[1] : p \in cells})
           minc == SetMin({p[2] : p \in cells})
       IN {<<p[1] - minr, p[2] - minc>> : p \in cells}

rotate_cells(cells) == normalize_cells({<<p[2], 0 - p[1]>> : p \in cells})

flip_cells(cells) == normalize_cells({<<p[1], 0 - p[2]>> : p \in cells})

RECURSIVE OrientationLoopCells(_, _, _)
OrientationLoopCells(cur, k, ori) ==
  IF k = 0 THEN ori
  ELSE LET nxt == rotate_cells(cur)
       IN OrientationLoopCells(nxt, k - 1, ori \cup {nxt, flip_cells(nxt)})

\* all_orientations of solution.py: the set ori after the four iterations.
solution_all_orientations(cells) == OrientationLoopCells(normalize_cells(cells), 4, {})

\* placement_bitmask: -1 stands for None.
placement_bitmask(cells, w, h, top, left) ==
  IF \E p \in cells : \/ top + p[1] < 0 \/ top + p[1] >= h
                      \/ left + p[2] < 0 \/ left + p[2] >= w
  THEN -1
  ELSE LET idxs == {(top + p[1]) * w + (left + p[2]) : p \in cells}
       IN SumSeq([i \in 1..Len(sorted(idxs)) |-> Pow2(sorted(idxs)[i])])

\* compute_placements_for_shape_in_region: max() of an empty shape raises
\* (err); otherwise the masks of the anchors the two loops visit, as a set
\* (can_fill_region sorts and deduplicates them).
compute_placements_for_shape_in_region(shape_cells, w, h) ==
  IF shape_cells = {} THEN [err |-> TRUE, masks |-> {}]
  ELSE LET maxr == SetMax({p[1] : p \in shape_cells})
           maxc == SetMax({p[2] : p \in shape_cells})
           pms == {placement_bitmask(shape_cells, w, h, a[1], a[2]) :
                      a \in (0..(h - maxr - 1)) \X (0..(w - maxc - 1))}
       IN [err |-> FALSE, masks |-> {pm \in pms : pm # -1}]

\* The list placements that compute_placements_for_shape_in_region returns for
\* a shape with cells, in the order of its two loops (lines 141-146).
compute_placements_in_order(shape_cells, w, h) ==
  LET maxr == SetMax({p[1] : p \in shape_cells})
      maxc == SetMax({p[2] : p \in shape_cells})
      pms == Flatten([t \in 1..(h - maxr) |->
                        [l \in 1..(w - maxc) |->
                           placement_bitmask(shape_cells, w, h, t - 1, l - 1)]])
  IN SelectSeq(pms, LAMBDA pm : pm # -1)

\* placements_per_shape[idx] of can_fill_region: sorted(set(placements)).
placements_of(oris, w, h) ==
  [err |-> \E ori \in oris : compute_placements_for_shape_in_region(ori, w, h).err,
   masks |-> sorted(UNION {compute_placements_for_shape_in_region(ori, w, h).masks :
                             ori \in oris})]

\* The loop of lines 172-184 from shape idx on.
RECURSIVE CanFillPlacementLoop(_, _, _, _, _)
CanFillPlacementLoop(idx, w, h, shape_orientations, counts) ==
  IF idx \notin DOMAIN shape_orientations THEN "ok"
  ELSE LET P == placements_of(shape_orientations[idx], w, h)
       IN IF P.err THEN "Raised"
          ELSE IF counts[idx + 1] > 0 /\ Len(P.masks) = 0 THEN "ZeroPlacementShape"
          ELSE CanFillPlacementLoop(idx + 1, w, h, shape_orientations, counts)

\* The shape indices in the order instances.sort puts their instances: by
\* number of placements, then (the sort is stable) by index.
RECURSIVE SortedShapes(_, _)
SortedShapes(S, pl) ==
  IF S = {} THEN <<>>
  ELSE LET m == CHOOSE x \in S : \A y \in S :
                   \/ Len(pl[x]) < Len(pl[y])
                   \/ Len(pl[x]) = Len(pl[y]) /\ x <= y
       IN <<m>> \o SortedShapes(S \ {m}, pl)

\* instances after the sort of line 194.
sorted_instances(counts, pl) ==
  LET ss == SortedShapes(DOMAIN pl, pl)
  IN Flatten([k \in 1..Len(ss) |-> [j \in 1..counts[ss[k] + 1] |-> ss[k]]])

\* remaining_area_from_pos[pos]
remaining_area_from_pos(instances, area, pos) ==
  SumSeq([i \in 1..(Len(instances) - pos) |-> area[instances[pos + i]]])

\* The cells a mask occupies.
MaskBits(mask) == SeqRange(BitsOf(mask, 0))

\* backtrack(pos, occupied) and its loop over the placements from the k-th on;
\* the memo set is passed along and returned.
RECURSIVE backtrack(_, _, _, _)
RECURSIVE backtrack_loop(_, _, _, _, _)
backtrack(ctx, pos, occupied, memo) ==
  IF pos = Len(ctx.instances) THEN [ok |-> TRUE, memo |-> memo]
  ELSE IF ctx.target_area - Cardinality(MaskBits(occupied))
            < remaining_area_from_pos(ctx.instances, ctx.area_per_shape, pos)
       THEN [ok |-> FALSE, memo |-> memo]
  ELSE IF <<pos, occupied>> \in memo THEN [ok |-> FALSE, memo |-> memo]
  ELSE LET r == backtrack_loop(ctx, pos, occupied, memo, 1)
       IN IF r.ok THEN r
          ELSE [ok |-> FALSE, memo |-> r.memo \cup {<<pos, occupied>>}]

backtrack_loop(ctx, pos, occupied, memo, k) ==
  LET pls == ctx.placements_lists[ctx.instances[pos + 1]]
  IN IF k > Len(pls) THEN [ok |-> FALSE, memo |-> memo]
     ELSE IF MaskBits(pls[k]) \cap MaskBits(occupied) # {}
          THEN backtrack_loop(ctx, pos, occupied, memo, k + 1)
     ELSE LET r == backtrack(ctx, pos + 1, occupied + pls[k], memo)
          IN IF r.ok THEN r ELSE backtrack_loop(ctx, pos, occupied, r.memo, k + 1)

\* can_fill_region with the instances placed in the given order.  kind names
\* the return taken: line 163 ("NoOrientation"), 168 ("AreaCheckFailed"), 184
\* ("ZeroPlacementShape"), 248 ("Searched"), or an exception raised on the way
\* ("Raised"); ok is the verdict.
can_fill_in_order(w, h, shape_orientations, counts, instances) ==
  LET area_per_shape_ == [idx \in DOMAIN shape_orientations |->
                            Cardinality(CHOOSE o \in shape_orientations[idx] : TRUE)]
      total == SumSeq([i \in 1..Len(counts) |-> counts[i] * area_per_shape_[i - 1]])
      loop == CanFillPlacementLoop(0, w, h, shape_orientations, counts)
      pl == [idx \in DOMAIN shape_orientations |->
               placements_of(shape_orientations[idx], w, h).masks]
      ctx == [instances |-> instances, placements_lists |-> pl,
              area_per_shape |-> area_per_shape_, target_area |-> w * h]
      r == backtrack(ctx, 0, 0, {})
  IN IF \E idx \in DOMAIN shape_orientations : shape_orientations[idx] = {}
     THEN [kind |-> "NoOrientation", ok |-> "False"]
     ELSE IF Len(counts) > Cardinality(DOMAIN shape_orientations)
     THEN [kind |-> "Raised", ok |-> "Raised"]
     ELSE IF total > w * h THEN [kind |-> "AreaCheckFailed", ok |-> "False"]
     ELSE IF loop # "ok"
     THEN [kind |-> loop, ok |-> IF loop = "Raised" THEN "Raised" ELSE "False"]
     ELSE [kind |-> "Searched", ok |-> IF r.ok THEN "True" ELSE "False"]

\* The instances of can_fill_region after the sort of line 195.
can_fill_instances(w, h, shape_orientations, counts) ==
  sorted_instances(counts, [idx \in DOMAIN shape_orientations |->
                              placements_of(shape_orientations[idx], w, h).masks])

\* can_fill_region: the instances are placed in the sorted order.
can_fill_region(w, h, shape_orientations, counts) ==
  can_fill_in_order(w, h, shape_orientations, counts,
                    can_fill_instances(w, h, shape_orientations, counts))

\* ----------------------------------------------------------------- inputs
\* Shape rasters as the parser hands them over: rows of '#' and '.'.
Unit == << <<"#">> >>
Domino == << <<"#", "#">> >>
LTromino == << <<".", "#", ".">>, <<".", "#", "#">> >>
ITromino == << <<"#", "#", "#">> >>
Square == << <<"#", "#">>, <<"#", "#">> >>
\* A shape without a '#'.
Empty == << <<".">> >>

\* The shape files of the runs: shape idx is the table's entry idx + 1.
\* Two cells of one row with a hole between them.
Gap == << <<"#", ".", "#">> >>
ShapeTables ==
  {<<Unit>>, <<Square>>, <<Unit, Domino>>, <<LTromino, Unit>>, <<LTromino, ITromino>>,
   <<Empty, ITromino>>, <<Gap>>}
\* Two cells that touch at a corner only.
Diagonal == << <<"#", ".">>, <<".", "#">> >>
\* The shape files on which the order of the instances is varied: with the
\* last one the exact-cover search has to take rows back before it succeeds.
OrderShapeTables == ShapeTables \cup {<<Domino, Diagonal>>}
BatchShapeTables == {<<LTromino, Unit>>, <<Empty, ITromino>>}

\* Count lists of at most n entries (main pads the shorter ones) that require
\* at most maxsum instances.
CountLists(n, maxsum) ==
  {cv \in UNION {[1..k -> 0..maxsum] : k \in 0..n} : SumSeq(cv) <= maxsum}

Boards == {b \in (1..MaxCells) \X (1..MaxCells) : b[1] * b[2] <= MaxCells}

Regions(n) ==
  {[w |-> b[1], h |-> b[2], counts |-> cv] : b \in Boards, cv \in CountLists(n, MaxInstances)}

BatchRegions(n) ==
  {[w |-> 2, h |-> 2, counts |-> cv] :
      cv \in {x \in CountLists(n, BatchMaxInstances) : Len(x) = n}}

\* The region lists of the runs: one region of Regions, or a batch of two to
\* MaxRegions regions of BatchRegions.
RegionLists(raw) ==
  {<<r>> : r \in Regions(Len(raw))}
  \cup (IF raw \in BatchShapeTables
        THEN UNION {[1..k -> BatchRegions(Len(raw))] : k \in 2..MaxRegions}
        ELSE {})

\* The batches of solve_all: 3x2 boards for the tromino table.
SolveAllBatchTables == {<<LTromino, ITromino>>, <<Empty, ITromino>>}
SolveAllBatchRegions(n) ==
  {[w |-> 3, h |-> 2, counts |-> cv] :
      cv \in {x \in CountLists(n, BatchMaxInstances) : Len(x) = n}}
SolveAllRegionLists(raw) ==
  {<<r>> : r \in Regions(Len(raw))}
  \cup (IF raw \in SolveAllBatchTables
        THEN UNION {[1..k -> SolveAllBatchRegions(Len(raw))] : k \in 2..MaxRegions}
        ELSE {})

\* ------------------------------------------------------------------ state
VARIABLES
  trace,        \* the column and row choices of the current search, and those of
                \* the searches of the regions recorded so far
  call,         \* a function applied on its own: its arguments and what it returned
  prog,         \* the program run: "solution_fixed" or "solution"
  sa,           \* solve_all: position, index of the next region, results, count_good
  shape_oris,   \* main: shape idx -> its orientations, precomputed once
  regions,      \* main: the parsed regions
  rid,          \* main: index of the region of the current loop iteration
  results,      \* main: the verdict recorded for each region so far
  total_ok,     \* main: number of regions recorded as fitting
  printed,      \* main: what the per-region line reports
  mpc,          \* main: "loop", "join", "check" or "done"
  join_alive,   \* whether the worker was alive when p.join(TIMEOUT) returned
  proc,         \* the worker process: "none", "alive", "exited", "terminated"
  wargs,        \* worker: the arguments it was started with
  wpc,          \* worker: position in region_worker / DLX.search
  phase,        \* worker: how far the evaluation of its region got
  dlx,          \* worker: the DLX object
  stack,        \* worker: the frames of the active DLX.search calls
  ok,           \* worker: the verdict it is about to put
  q             \* the queue of the current region

vars == <<trace, call, prog, sa, shape_oris, regions, rid, results, total_ok, printed, mpc, join_alive,
          proc, wargs, wpc, phase, dlx, stack, ok, q>>

mainVars == <<shape_oris, regions, rid, results, total_ok, printed, mpc, join_alive>>
workerVars == <<wargs, wpc, phase, dlx, stack, ok>>

NoArgs == [idx |-> -1, w |-> 0, h |-> 0, counts |-> <<>>]

\* No search has made a choice.
NoTrace == [cur |-> <<>>, done |-> <<>>]

\* What is kept of a search when its region is recorded: its choices when the
\* worker ended by itself, nothing when it was terminated.
Completed(choices) == [complete |-> TRUE, choices |-> choices]
Cut == [complete |-> FALSE, choices |-> <<>>]

\* No function is applied on its own.
NoCall == [pc |-> "none"]

\* main, lines 316-325, and solve_all, lines 256-262: the orientation table is
\* computed from the rasters by the program that is run.
Init ==
  /\ trace = NoTrace
  /\ call = NoCall
  /\ prog \in {"solution_fixed", "solution"}
  /\ \E raw \in ShapeTables :
       IF prog = "solution_fixed"
       THEN /\ shape_oris = [idx \in 0..(Len(raw) - 1) |->
                               all_orientations(shape_to_cells(raw[idx + 1]))]
            /\ regions \in RegionLists(raw)
       ELSE /\ shape_oris = [idx \in 0..(Len(raw) - 1) |->
                               solution_all_orientations(shape_to_cells(raw[idx + 1]))]
            /\ regions \in SolveAllRegionLists(raw)
  /\ sa = [pc |-> "loop", i |-> 0, results |-> <<>>, count_good |-> 0]
  /\ rid = 0
  /\ results = <<>>
  /\ total_ok = 0
  /\ printed = <<>>
  /\ mpc = "loop"
  /\ join_alive = FALSE
  /\ proc = "none"
  /\ wargs = NoArgs
  /\ wpc = "none"
  /\ phase = "Unevaluated"
  /\ dlx = NoDLX
  /\ stack = <<>>
  /\ ok = "None"
  /\ q = <<>>

\* ------------------------------------------------------------------- main
\* Mutant of MainSpawn: the counts are padded in place, in the parsed region.
MainSpawnPadsInPlace ==
  /\ prog = "solution_fixed"
  /\ mpc = "loop"
  /\ rid < Len(regions)
  /\ LET reg == regions[rid + 1]
         max_shape == SetMax(DOMAIN shape_oris)
     IN /\ wargs' = [idx |-> rid, w |-> reg.w, h |-> reg.h,
                     counts |-> PadCounts(reg.counts, max_shape)]
        /\ regions' = [regions EXCEPT ![rid + 1].counts = PadCounts(reg.counts, max_shape)]
  /\ q' = <<>>
  /\ proc' = "alive"
  /\ wpc' = "build"
  /\ phase' = "Unevaluated"
  /\ dlx' = NoDLX
  /\ stack' = <<>>
  /\ ok' = "None"
  /\ mpc' = "join"
  /\ join_alive' = FALSE
  /\ UNCHANGED <<trace, call, prog, sa, shape_oris, rid, results, total_ok, printed>>

\* Lines 326-334: pad the counts, create the queue, start the worker.
MainSpawn ==
  /\ prog = "solution_fixed"
  /\ mpc = "loop"
  /\ rid < Len(regions)
  /\ LET reg == regions[rid + 1]
         max_shape == SetMax(DOMAIN shape_oris)
     IN wargs' = [idx |-> rid, w |-> reg.w, h |-> reg.h,
                  counts |-> PadCounts(reg.counts, max_shape)]
  /\ q' = <<>>
  /\ proc' = "alive"
  /\ wpc' = "build"
  /\ phase' = "Unevaluated"
  /\ dlx' = NoDLX
  /\ stack' = <<>>
  /\ ok' = "None"
  /\ mpc' = "join"
  /\ join_alive' = FALSE
  /\ UNCHANGED <<trace, call, prog, sa, shape_oris, regions, rid, results, total_ok, printed>>

\* Line 335: p.join(TIMEOUT_PER_REGION) returns because the worker has ended.
MainJoinExited ==
  /\ mpc = "join"
  /\ proc = "exited"
  /\ mpc' = "check"
  /\ join_alive' = FALSE
  /\ UNCHANGED <<trace, call, prog, sa, shape_oris, regions, rid, results, total_ok, printed, proc, q>>
  /\ UNCHANGED workerVars

\* Mutant of MainJoinTimeout: p.join() without a timeout, which returns only
\* once the worker has ended.
MainJoinWithoutTimeout ==
  /\ mpc = "join"
  /\ proc = "exited"
  /\ mpc' = "check"
  /\ join_alive' = FALSE
  /\ UNCHANGED <<trace, call, prog, sa, shape_oris, regions, rid, results, total_ok, printed, proc, q>>
  /\ UNCHANGED workerVars

\* Line 335: p.join(TIMEOUT_PER_REGION) returns because the time is up.
MainJoinTimeout ==
  /\ mpc = "join"
  /\ proc = "alive"
  /\ mpc' = "check"
  /\ join_alive' = TRUE
  /\ UNCHANGED <<trace, call, prog, sa, shape_oris, regions, rid, results, total_ok, printed, proc, q>>
  /\ UNCHANGED workerVars

\* Mutant of MainTimeout: the timeout is recorded as False.
MainTimeoutAsFalse ==
  /\ mpc = "check"
  /\ proc = "alive"
  /\ proc' = "terminated"
  /\ printed' = Append(printed, "False")
  /\ results' = Append(results, "False")
  /\ rid' = rid + 1
  /\ mpc' = "loop"
  /\ wpc' = "none" /\ dlx' = NoDLX /\ stack' = <<>> /\ ok' = "None"
  /\ UNCHANGED <<call, prog, sa, shape_oris, regions, total_ok, join_alive, wargs, phase, q>>
  /\ trace' = [cur |-> <<>>, done |-> Append(trace.done, Cut)]

\* Mutant of MainTimeout: after terminating the worker, a verdict found in the
\* queue is used.
MainTimeoutDrainsQueue ==
  /\ mpc = "check"
  /\ proc = "alive"
  /\ proc' = "terminated"
  /\ IF q # <<>>
     THEN /\ printed' = Append(printed, Head(q)[2])
          /\ results' = Append(results, Head(q)[2])
          /\ total_ok' = IF Head(q)[2] = "True" THEN total_ok + 1 ELSE total_ok
          /\ q' = Tail(q)
     ELSE /\ printed' = Append(printed, "TIMEOUT")
          /\ results' = Append(results, "None")
          /\ UNCHANGED <<total_ok, q>>
  /\ rid' = rid + 1
  /\ mpc' = "loop"
  /\ wpc' = "none" /\ dlx' = NoDLX /\ stack' = <<>> /\ ok' = "None"
  /\ UNCHANGED <<call, prog, sa, shape_oris, regions, join_alive, wargs, phase>>
  /\ trace' = [cur |-> <<>>, done |-> Append(trace.done, Cut)]

\* Mutant of MainTimeout: the timed-out region gets no entry in results.
MainTimeoutNoRecord ==
  /\ mpc = "check"
  /\ proc = "alive"
  /\ proc' = "terminated"
  /\ printed' = Append(printed, "TIMEOUT")
  /\ rid' = rid + 1
  /\ mpc' = "loop"
  /\ wpc' = "none" /\ dlx' = NoDLX /\ stack' = <<>> /\ ok' = "None"
  /\ UNCHANGED <<call, prog, sa, shape_oris, regions, results, total_ok, join_alive, wargs, phase, q>>
  /\ trace' = [cur |-> <<>>, done |-> Append(trace.done, Cut)]

\* Lines 336-340: the worker is alive: terminate it, record None.  The queue
\* is not read.  The dead worker's memory is gone.
MainTimeout ==
  /\ mpc = "check"
  /\ proc = "alive"
  /\ proc' = "terminated"
  /\ printed' = Append(printed, "TIMEOUT")
  /\ results' = Append(results, "None")
  /\ rid' = rid + 1
  /\ mpc' = "loop"
  /\ wpc' = "none" /\ dlx' = NoDLX /\ stack' = <<>> /\ ok' = "None"
  /\ UNCHANGED <<call, prog, sa, shape_oris, regions, total_ok, join_alive, wargs, phase, q>>
  /\ trace' = [cur |-> <<>>, done |-> Append(trace.done, Cut)]

\* Mutant of MainResult: total_ok is incremented for every verdict taken from
\* the queue.
MainResultCountsEveryVerdict ==
  /\ mpc = "check"
  /\ proc # "alive"
  /\ IF q # <<>>
     THEN /\ printed' = Append(printed, Head(q)[2])
          /\ results' = Append(results, Head(q)[2])
          /\ total_ok' = total_ok + 1
          /\ q' = Tail(q)
     ELSE /\ printed' = Append(printed, "ERROR")
          /\ results' = Append(results, "None")
          /\ UNCHANGED <<total_ok, q>>
  /\ rid' = rid + 1
  /\ mpc' = "loop"
  /\ wpc' = "none" /\ dlx' = NoDLX /\ stack' = <<>> /\ ok' = "None"
  /\ UNCHANGED <<call, prog, sa, shape_oris, regions, join_alive, proc, wargs, phase>>
  /\ trace' = [cur |-> <<>>,
                done |-> Append(trace.done, IF q # <<>> THEN Completed(trace.cur) ELSE Cut)]

\* Lines 341-350: the worker has ended: read its verdict from the queue, or
\* report that there is none.
MainResult ==
  /\ mpc = "check"
  /\ proc # "alive"
  /\ IF q # <<>>
     THEN /\ printed' = Append(printed, Head(q)[2])
          /\ results' = Append(results, Head(q)[2])
          /\ total_ok' = IF Head(q)[2] = "True" THEN total_ok + 1 ELSE total_ok
          /\ q' = Tail(q)
     ELSE /\ printed' = Append(printed, "ERROR")
          /\ results' = Append(results, "None")
          /\ UNCHANGED <<total_ok, q>>
  /\ rid' = rid + 1
  /\ mpc' = "loop"
  /\ wpc' = "none" /\ dlx' = NoDLX /\ stack' = <<>> /\ ok' = "None"
  /\ UNCHANGED <<call, prog, sa, shape_oris, regions, join_alive, proc, wargs, phase>>
  /\ trace' = [cur |-> <<>>,
                done |-> Append(trace.done, IF q # <<>> THEN Completed(trace.cur) ELSE Cut)]

\* Line 352: every region was handled.
MainDone ==
  /\ prog = "solution_fixed"
  /\ mpc = "loop"
  /\ rid = Len(regions)
  /\ mpc' = "done"
  /\ UNCHANGED <<trace, call, prog, sa, shape_oris, regions, rid, results, total_ok, printed, join_alive, proc, q>>
  /\ UNCHANGED workerVars

\* ----------------------------------------------------------------- worker
Top == stack[Len(stack)]
Pop == SubSeq(stack, 1, Len(stack) - 1)

\* region_worker, lines 302-306 and 309-310: build the exact-cover instance;
\* without one the verdict is False, on an exception None; otherwise
\* construct the DLX object and call search.
WorkerBuild ==
  /\ proc = "alive"
  /\ wpc = "build"
  /\ LET b == build_exact_cover_for_region(wargs.w, wargs.h, shape_oris, wargs.counts)
     IN IF b.kind = "ok"
        THEN /\ dlx' = DLX_init(b.n_cols, b.rows)
             /\ phase' = "Searching"
             /\ wpc' = "call"
             /\ ok' = ok
        ELSE /\ dlx' = dlx
             /\ phase' = b.kind
             /\ wpc' = "put"
             /\ ok' = IF b.kind = "Error" THEN "None" ELSE "False"
  /\ UNCHANGED <<wargs, stack, proc, q>>
  /\ UNCHANGED mainVars /\ UNCHANGED <<trace, call, prog, sa>>

\* Mutant of SearchCall: among the active columns with the fewest active rows
\* any one is chosen.
SearchCallAnyColumn ==
  /\ proc = "alive"
  /\ wpc = "call"
  /\ IF AllColumnsInactive(dlx)
     THEN /\ dlx' = [dlx EXCEPT !.found = TRUE]
          /\ wpc' = "ret_true"
          /\ stack' = stack
          /\ trace' = trace
     ELSE LET active == {c \in 0..(dlx.n_cols - 1) : dlx.col_active[c]}
              least == {c \in active : \A c2 \in active :
                          Len(ActiveRowsOf(dlx, c)) <= Len(ActiveRowsOf(dlx, c2))}
          IN \E c \in least :
               /\ trace' = [trace EXCEPT !.cur = Append(@, <<"column", c>>)]
               /\ IF ActiveRowsOf(dlx, c) = <<>>
                  THEN /\ wpc' = "ret_false"
                       /\ UNCHANGED <<dlx, stack>>
                  ELSE /\ stack' = Append(stack, [c |-> c, rows_covering |-> ActiveRowsOf(dlx, c),
                                                  i |-> 1, impacted_per_col |-> <<>>,
                                                  entry |-> dlx])
                       /\ wpc' = "loop"
                       /\ dlx' = dlx
  /\ UNCHANGED <<wargs, phase, ok, proc, q>>
  /\ UNCHANGED mainVars /\ UNCHANGED <<call, prog, sa>>

\* DLX.search, lines 196-206: the entry of a call.  All columns inactive: a
\* cover is found.  Otherwise choose a column; a column without an active row
\* is a dead end; else start the loop over the rows covering it.
\* The frame of the call keeps, next to the locals of the code, the matrix as
\* the call found it (entry), which the code does not store.
SearchCall ==
  /\ proc = "alive"
  /\ wpc = "call"
  /\ IF AllColumnsInactive(dlx)
     THEN /\ dlx' = [dlx EXCEPT !.found = TRUE]
          /\ wpc' = "ret_true"
          /\ stack' = stack
     ELSE LET c == choose_column(dlx)
              rows_covering == IF c = -1 THEN <<>> ELSE ActiveRowsOf(dlx, c)
          IN IF rows_covering = <<>>
             THEN /\ wpc' = "ret_false"
                  /\ UNCHANGED <<dlx, stack>>
             ELSE /\ stack' = Append(stack, [c |-> c, rows_covering |-> rows_covering,
                                             i |-> 1, impacted_per_col |-> <<>>,
                                             entry |-> dlx])
                  /\ wpc' = "loop"
                  /\ dlx' = dlx
  /\ UNCHANGED <<wargs, phase, ok, proc, q>>
  /\ UNCHANGED mainVars /\ UNCHANGED <<call, prog, sa>>
  /\ trace' = IF AllColumnsInactive(dlx) THEN trace
               ELSE [trace EXCEPT !.cur = Append(@, <<"column", choose_column(dlx)>>)]

\* Mutant of SearchSelect: the row is appended to the solution and the call
\* is made without its columns being covered.
SearchSelectNoCover ==
  /\ proc = "alive"
  /\ wpc = "loop"
  /\ Top.i <= Len(Top.rows_covering)
  /\ dlx' = [dlx EXCEPT !.solution = Append(dlx.solution, Top.rows_covering[Top.i])]
  /\ stack' = stack
  /\ wpc' = "call"
  /\ UNCHANGED <<wargs, phase, ok, proc, q>>
  /\ UNCHANGED mainVars /\ UNCHANGED <<call, prog, sa>>
  /\ trace' = [trace EXCEPT !.cur = Append(@, <<"row", Top.rows_covering[Top.i]>>)]

\* Lines 209-220: select the next row covering the chosen column: cover its
\* columns, append it to the solution, recurse.
SearchSelect ==
  /\ proc = "alive"
  /\ wpc = "loop"
  /\ Top.i <= Len(Top.rows_covering)
  /\ LET r == Top.rows_covering[Top.i]
         cv == CoverColumns(dlx, dlx.rows[r + 1], <<>>)
     IN /\ dlx' = [cv.dlx EXCEPT !.solution = Append(dlx.solution, r)]
        /\ stack' = [stack EXCEPT ![Len(stack)].impacted_per_col = cv.impacted_per_col]
  /\ wpc' = "call"
  /\ UNCHANGED <<wargs, phase, ok, proc, q>>
  /\ UNCHANGED mainVars /\ UNCHANGED <<call, prog, sa>>
  /\ trace' = [trace EXCEPT !.cur = Append(@, <<"row", Top.rows_covering[Top.i]>>)]

\* Lines 222-226: the recursive call returned False: take the row back and
\* uncover its columns in reverse order, then go on with the next row.
SearchBacktrack ==
  /\ proc = "alive"
  /\ wpc = "ret_false"
  /\ stack # <<>>
  /\ LET r == Top.rows_covering[Top.i]
         popped == [dlx EXCEPT !.solution = SubSeq(dlx.solution, 1, Len(dlx.solution) - 1)]
     IN dlx' = UncoverColumns(popped, dlx.rows[r + 1], Top.impacted_per_col)
  /\ stack' = [stack EXCEPT ![Len(stack)].i = Top.i + 1,
                            ![Len(stack)].impacted_per_col = <<>>]
  /\ wpc' = "loop"
  /\ UNCHANGED <<wargs, phase, ok, proc, q>>
  /\ UNCHANGED mainVars /\ UNCHANGED <<trace, call, prog, sa>>

\* Line 227: every row covering the column was tried: the call returns False.
SearchExhausted ==
  /\ proc = "alive"
  /\ wpc = "loop"
  /\ Top.i > Len(Top.rows_covering)
  /\ stack' = Pop
  /\ wpc' = "ret_false"
  /\ UNCHANGED <<wargs, phase, dlx, ok, proc, q>>
  /\ UNCHANGED mainVars /\ UNCHANGED <<trace, call, prog, sa>>

\* Mutant of SearchReturnTrue: after a recursive call that returned True the
\* row is taken back and the next row is tried, as after one that returned
\* False.
SearchReturnTrueTriesNextRow ==
  /\ proc = "alive"
  /\ wpc = "ret_true"
  /\ stack # <<>>
  /\ LET r == Top.rows_covering[Top.i]
         popped == [dlx EXCEPT !.solution = SubSeq(dlx.solution, 1, Len(dlx.solution) - 1)]
     IN dlx' = UncoverColumns(popped, dlx.rows[r + 1], Top.impacted_per_col)
  /\ stack' = [stack EXCEPT ![Len(stack)].i = Top.i + 1,
                            ![Len(stack)].impacted_per_col = <<>>]
  /\ wpc' = "loop"
  /\ UNCHANGED <<wargs, phase, ok, proc, q>>
  /\ UNCHANGED mainVars /\ UNCHANGED <<trace, call, prog, sa>>

\* Lines 220-221: the recursive call returned True: this call returns True.
SearchReturnTrue ==
  /\ proc = "alive"
  /\ wpc = "ret_true"
  /\ stack # <<>>
  /\ stack' = Pop
  /\ UNCHANGED <<wargs, wpc, phase, dlx, ok, proc, q>>
  /\ UNCHANGED mainVars /\ UNCHANGED <<trace, call, prog, sa>>

\* Line 307: the outermost search call has returned; ok is its result.
WorkerSearchDone ==
  /\ proc = "alive"
  /\ wpc \in {"ret_true", "ret_false"}
  /\ stack = <<>>
  /\ ok' = IF wpc = "ret_true" THEN "True" ELSE "False"
  /\ wpc' = "put"
  /\ UNCHANGED <<wargs, phase, dlx, stack, proc, q>>
  /\ UNCHANGED mainVars /\ UNCHANGED <<trace, call, prog, sa>>

\* Lines 304, 308, 310: q.put((idx, verdict)).
WorkerPut ==
  /\ proc = "alive"
  /\ wpc = "put"
  /\ q' = Append(q, <<wargs.idx, ok>>)
  /\ wpc' = "exit"
  /\ UNCHANGED <<wargs, phase, dlx, stack, ok, proc>>
  /\ UNCHANGED mainVars /\ UNCHANGED <<trace, call, prog, sa>>

\* The worker function has returned: the process ends.
WorkerExit ==
  /\ proc = "alive"
  /\ wpc = "exit"
  /\ proc' = "exited"
  /\ UNCHANGED <<q>>
  /\ UNCHANGED workerVars
  /\ UNCHANGED mainVars /\ UNCHANGED <<trace, call, prog, sa>>

\* ------------------------------------------------------------- solve_all
fixedVars == <<shape_oris, regions, rid, results, total_ok, printed, mpc, join_alive,
               proc, wargs, wpc, phase, dlx, stack, ok, q>>

\* Mutant of SolveAllRegion: the counts are padded in place, in the parsed
\* region.
SolveAllRegionPadsInPlace ==
  /\ prog = "solution"
  /\ sa.pc = "loop"
  /\ sa.i < Len(regions)
  /\ LET reg == regions[sa.i + 1]
         max_shape == SetMax(DOMAIN shape_oris)
         counts == PadCounts(reg.counts, max_shape)
         per_region_oris == [idx \in 0..max_shape |-> shape_oris[idx]]
         r == can_fill_region(reg.w, reg.h, per_region_oris, counts)
     IN /\ IF r.ok = "Raised"
           THEN sa' = [sa EXCEPT !.pc = "raised"]
           ELSE sa' = [sa EXCEPT !.i = @ + 1,
                                 !.results = Append(@, r.ok),
                                 !.count_good = IF r.ok = "True" THEN @ + 1 ELSE @]
        /\ regions' = [regions EXCEPT ![sa.i + 1].counts = counts]
  /\ UNCHANGED <<trace, call, prog, shape_oris, rid, results, total_ok, printed, mpc, join_alive,
                 proc, wargs, wpc, phase, dlx, stack, ok, q>>

\* Lines 266-279: one iteration of the loop of solve_all; an exception of
\* can_fill_region ends the program.
SolveAllRegion ==
  /\ prog = "solution"
  /\ sa.pc = "loop"
  /\ sa.i < Len(regions)
  /\ LET reg == regions[sa.i + 1]
         max_shape == SetMax(DOMAIN shape_oris)
         counts == PadCounts(reg.counts, max_shape)
         per_region_oris == [idx \in 0..max_shape |-> shape_oris[idx]]
         r == can_fill_region(reg.w, reg.h, per_region_oris, counts)
     IN IF r.ok = "Raised"
        THEN sa' = [sa EXCEPT !.pc = "raised"]
        ELSE sa' = [sa EXCEPT !.i = @ + 1,
                              !.results = Append(@, r.ok),
                              !.count_good = IF r.ok = "True" THEN @ + 1 ELSE @]
  /\ UNCHANGED <<trace, call, prog>> /\ UNCHANGED fixedVars

\* Line 280: return count_good, results.
SolveAllReturn ==
  /\ prog = "solution"
  /\ sa.pc = "loop"
  /\ sa.i = Len(regions)
  /\ sa' = [sa EXCEPT !.pc = "done"]
  /\ UNCHANGED <<trace, call, prog>> /\ UNCHANGED fixedVars

SolveAll == SolveAllRegion \/ SolveAllReturn

Main == MainSpawn \/ MainJoinExited \/ MainJoinTimeout \/ MainTimeout \/ MainResult \/ MainDone

Worker ==
  \/ WorkerBuild \/ SearchCall \/ SearchSelect \/ SearchBacktrack \/ SearchExhausted
  \/ SearchReturnTrue \/ WorkerSearchDone \/ WorkerPut \/ WorkerExit

Next == Main \/ Worker \/ SolveAll

Spec == Init /\ [][Next]_vars

\* ------------------------------------- geometry functions on their own
\* No program runs.
NoProgram ==
  /\ trace = NoTrace
  /\ prog = "none"
  /\ sa = [pc |-> "none", i |-> 0, results |-> <<>>, count_good |-> 0]
  /\ shape_oris = <<>>
  /\ regions = <<>>
  /\ rid = 0
  /\ results = <<>>
  /\ total_ok = 0
  /\ printed = <<>>
  /\ mpc = "none"
  /\ join_alive = FALSE
  /\ proc = "none"
  /\ wargs = NoArgs
  /\ wpc = "none"
  /\ phase = "Unevaluated"
  /\ dlx = NoDLX
  /\ stack = <<>>
  /\ ok = "None"
  /\ q = <<>>

programVars == <<trace, prog, sa, shape_oris, regions, rid, results, total_ok, printed, mpc,
                 join_alive, proc, wargs, wpc, phase, dlx, stack, ok, q>>

\* The cell lists shape_to_cells can return, as sets.
Shapes ==
  {S \in SUBSET ((0..MaxCoord) \X (0..MaxCoord)) : Cardinality(S) <= MaxShapeCells}

InitGeometry ==
  /\ NoProgram
  /\ \E S \in Shapes : call = [pc |-> "shape", cells |-> S]

\* all_orientations of both programs is applied to the cells.
GeoOrient ==
  /\ call.pc = "shape"
  /\ call' = [pc |-> "oriented", cells |-> call.cells,
              oris |-> all_orientations(call.cells),
              oris_solution |-> solution_all_orientations(call.cells)]
  /\ UNCHANGED programVars

\* The placements of the normalized cells on a w x h board are computed by
\* both programs; max() of no cells raises ValueError.
GeoPlace ==
  /\ call.pc = "oriented"
  /\ \E w \in 0..MaxBoardSide, h \in 0..MaxBoardSide :
       LET ori == normalize(call.cells)
       IN call' = [pc |-> "placed", cells |-> call.cells, ori |-> ori, w |-> w, h |-> h,
                   raised |-> ori = {},
                   placements |-> IF ori = {} THEN <<>> ELSE placements_in_order(ori, w, h),
                   placements_solution |->
                     IF ori = {} THEN <<>> ELSE compute_placements_in_order(ori, w, h),
                   masks |-> all_placements_for_orientation(ori, w, h),
                   masks_solution |-> compute_placements_for_shape_in_region(ori, w, h)]
  /\ UNCHANGED programVars

NextGeometry == GeoOrient \/ GeoPlace

SpecGeometry == InitGeometry /\ [][NextGeometry]_vars

\* ------------------------------------------------ the order of instances
\* The orders in which the instances of a list can be taken.
InstanceOrders(instances) ==
  {o \in [1..Len(instances) -> SeqRange(instances)] :
     \A v \in SeqRange(instances) :
        Cardinality({i \in 1..Len(o) : o[i] = v})
          = Cardinality({i \in 1..Len(instances) : instances[i] = v})}

\* A shape file and one region, as both programs parse them; the counts are
\* padded as main and solve_all pad them.
InitOrder ==
  /\ NoProgram
  /\ \E raw \in OrderShapeTables : \E reg \in Regions(Len(raw)) :
       call = [pc |-> "region", w |-> reg.w, h |-> reg.h,
               counts |-> PadCounts(reg.counts, Len(raw) - 1),
               oris |-> [idx \in 0..(Len(raw) - 1) |->
                           all_orientations(shape_to_cells(raw[idx + 1]))],
               oris_solution |-> [idx \in 0..(Len(raw) - 1) |->
                           solution_all_orientations(shape_to_cells(raw[idx + 1]))]]

\* region_worker of solution_fixed.py is applied with the instance columns in
\* some order, and in the order of the code.
OrderFixed ==
  /\ call.pc = "region"
  /\ \E imap \in InstanceOrders(instance_map(call.counts)) :
       call' = [pc |-> "fixed", w |-> call.w, h |-> call.h, counts |-> call.counts,
                order |-> imap, code_order |-> instance_map(call.counts),
                verdict |-> region_worker_in_order(call.w, call.h, call.counts, call.oris, imap),
                code_verdict |-> region_worker_in_order(call.w, call.h, call.counts, call.oris,
                                                        instance_map(call.counts))]
  /\ UNCHANGED programVars

\* can_fill_region of solution.py is applied with the instances in some order,
\* and in the sorted order of the code.
OrderSolution ==
  /\ call.pc = "region"
  /\ LET sorted_ == can_fill_instances(call.w, call.h, call.oris_solution, call.counts)
     IN \E instances \in InstanceOrders(sorted_) :
          call' = [pc |-> "solution", w |-> call.w, h |-> call.h, counts |-> call.counts,
                   order |-> instances, code_order |-> sorted_,
                   placement_counts |->
                     [idx \in DOMAIN call.oris_solution |->
                        Len(placements_of(call.oris_solution[idx], call.w, call.h).masks)],
                   verdict |-> can_fill_in_order(call.w, call.h, call.oris_solution,
                                                 call.counts, instances).ok,
                   code_verdict |-> can_fill_region(call.w, call.h, call.oris_solution,
                                                    call.counts).ok]
  /\ UNCHANGED programVars

NextOrder == OrderFixed \/ OrderSolution

SpecOrder == InitOrder /\ [][NextOrder]_vars

\* ------------------------------- src/test_day7.py, src/day07/solution.py
\* Bounds of the manifold grids.
MaxGridRows == 3
MaxGridCols == 2

\* The grids of r rows and c columns over '.', '^' and 'S', with one 'S'.
Grids(r, c) ==
  {g \in [1..r -> [1..c -> {".", "^", "S"}]] :
     Cardinality({rc \in (1..r) \X (1..c) : g[rc[1]][rc[2]] = "S"}) = 1}

\* The keys a paths dictionary can hold: rows 0..rows, columns -1..cols.
PathKeys(grid) == (0..Len(grid)) \X ((-1)..Len(grid[1]))

\* sum(count for ... in paths.items() if ...) over the keys of S.
RECURSIVE SumPaths(_, _)
SumPaths(paths, S) ==
  IF S = {} THEN 0
  ELSE LET k == CHOOSE x \in S : TRUE IN paths[k] + SumPaths(paths, S \ {k})

\* find_start of test_day7.py: the first 'S' in row-major order, as (row, col).
find_start(grid) ==
  LET found == {rc \in (0..(Len(grid) - 1)) \X (0..(Len(grid[1]) - 1)) :
                  grid[rc[1] + 1][rc[2] + 1] = "S"}
  IN CHOOSE rc \in found : \A o \in found : rc[1] < o[1] \/ (rc[1] = o[1] /\ rc[2] <= o[2])

\* One pass of the loop of count_timelines (test_day7.py lines 29-54): the
\* entries of row current_row are moved into new_paths, an entry of another
\* row is skipped (line 33) and is not in new_paths; an absent key counts 0.
count_timelines_pass(grid, paths, current_row) ==
  LET rows == Len(grid)
      cols == Len(grid[1])
      taken(e) == e \in PathKeys(grid) /\ e[1] = current_row
      final(e) == e[1] >= rows
      outside(e) == ~final(e) /\ (e[2] < 0 \/ e[2] >= cols)
      inside(e) == ~final(e) /\ ~outside(e)
      splits(e) == taken(e) /\ inside(e) /\ grid[e[1] + 1][e[2] + 1] = "^"
      falls(e) == taken(e) /\ inside(e) /\ grid[e[1] + 1][e[2] + 1] # "^"
  IN [p \in PathKeys(grid) |->
        (IF taken(p) /\ (final(p) \/ outside(p)) THEN paths[p] ELSE 0)
        + (IF splits(<<p[1] - 1, p[2] + 1>>) THEN paths[<<p[1] - 1, p[2] + 1>>] ELSE 0)
        + (IF splits(<<p[1] - 1, p[2] - 1>>) THEN paths[<<p[1] - 1, p[2] - 1>>] ELSE 0)
        + (IF falls(<<p[1] - 1, p[2]>>) THEN paths[<<p[1] - 1, p[2]>>] ELSE 0)]

RECURSIVE count_timelines_loop(_, _, _)
count_timelines_loop(grid, paths, current_row) ==
  IF current_row > Len(grid) THEN paths
  ELSE count_timelines_loop(grid, count_timelines_pass(grid, paths, current_row),
                            current_row + 1)

\* count_timelines of test_day7.py.
count_timelines(grid, start_row, start_col) ==
  LET rows == Len(grid)
      cols == Len(grid[1])
      first == [p \in PathKeys(grid) |-> IF p = <<start_row + 1, start_col>> THEN 1 ELSE 0]
      paths == count_timelines_loop(grid, first, start_row + 1)
  IN SumPaths(paths, {p \in PathKeys(grid) : p[1] >= rows \/ p[2] < 0 \/ p[2] >= cols})

\* TachyonSimulator._find_start: the first row that holds an 'S' and the index
\* of the first 'S' in it.
TachyonSimulator_find_start(grid) ==
  LET row_idx == SetMin({r \in 0..(Len(grid) - 1) :
                           \E c \in 1..Len(grid[r + 1]) : grid[r + 1][c] = "S"})
  IN <<row_idx, SetMin({c \in 0..(Len(grid[row_idx + 1]) - 1) :
                          grid[row_idx + 1][c + 1] = "S"})>>

\* One pass of the loop of TachyonSimulator.count_timelines (lines 97-118).
TachyonSimulator_pass(grid, paths, current_row) ==
  LET rows == Len(grid)
      cols == Len(grid[1])
      taken(e) == e \in PathKeys(grid) /\ e[1] = current_row
      leaves(e) == ~(0 <= e[2] /\ e[2] < cols) \/ e[1] >= rows
      splits(e) == taken(e) /\ ~leaves(e) /\ grid[e[1] + 1][e[2] + 1] = "^"
      falls(e) == taken(e) /\ ~leaves(e) /\ grid[e[1] + 1][e[2] + 1] # "^"
      left(e) == <<e[1] + 1, e[2] - 1>>
      right(e) == <<e[1] + 1, e[2] + 1>>
      down(e) == <<e[1] + 1, e[2]>>
      from(p) == {e \in PathKeys(grid) :
                    \/ taken(e) /\ leaves(e) /\ p = e
                    \/ splits(e) /\ p = left(e)
                    \/ splits(e) /\ p = right(e)
                    \/ falls(e) /\ p = down(e)}
  IN [p \in PathKeys(grid) |-> SumPaths(paths, from(p))]

RECURSIVE TachyonSimulator_loop(_, _, _)
TachyonSimulator_loop(grid, paths, current_row) ==
  IF current_row > Len(grid) THEN paths
  ELSE TachyonSimulator_loop(grid, TachyonSimulator_pass(grid, paths, current_row),
                             current_row + 1)

\* TachyonSimulator(grid).count_timelines()
TachyonSimulator_count_timelines(grid) ==
  LET start_pos == TachyonSimulator_find_start(grid)
      start == <<start_pos[1] + 1, start_pos[2]>>
      first == [p \in PathKeys(grid) |-> IF p = start THEN 1 ELSE 0]
      paths == TachyonSimulator_loop(grid, first, start_pos[1] + 1)
  IN SumPaths(paths, {p \in PathKeys(grid) :
                        p[1] >= Len(grid) \/ ~(0 <= p[2] /\ p[2] < Len(grid[1]))})

InitTimelines ==
  /\ NoProgram
  /\ \E r \in 1..MaxGridRows, c \in 1..MaxGridCols :
       \E grid \in Grids(r, c) : call = [pc |-> "grid", grid |-> grid]

\* test_day7.py lines 81-84: find_start, then count_timelines.
TimelinesStandalone ==
  /\ call.pc = "grid"
  /\ LET start == find_start(call.grid)
     IN call' = [pc |-> "standalone", grid |-> call.grid, start |-> start,
                 result |-> count_timelines(call.grid, start[1], start[2])]
  /\ UNCHANGED programVars

\* day07/solution.py lines 148 and 155: the simulator counts on the same grid.
TimelinesSimulator ==
  /\ call.pc = "standalone"
  /\ call' = [pc |-> "counted", grid |-> call.grid, start |-> call.start,
              result |-> call.result,
              timeline_count |-> TachyonSimulator_count_timelines(call.grid)]
  /\ UNCHANGED programVars

NextTimelines == TimelinesStandalone \/ TimelinesSimulator

SpecTimelines == InitTimelines /\ [][NextTimelines]_vars

\* -------------------------------------- src/day1.py, src/day01/solution.py
\* The dial has the numbers 0-99 and starts at 50.
DialSize == 100
DialStart == 50
\* Bounds of the rotations.
MaxDistance == 120
MaxRotations == 2
MaxListDistance == 3

\* rotate_dial of day01/solution.py.
rotate_dial(current_pos, direction, distance) ==
  LET rotation == IF direction = "L" THEN -distance ELSE distance
  IN (current_pos + rotation) % DialSize

\* count_zeros_during_rotation of day01/solution.py.
count_zeros_during_rotation(start_pos, direction, distance) ==
  IF direction = "L"
  THEN LET start == (start_pos - 1) % DialSize
           end == (start_pos - distance) % DialSize
       IN ((start \div DialSize) - (end \div DialSize)) % DialSize
  ELSE LET start == (start_pos + 1) % DialSize
           end == (start_pos + distance) % DialSize
       IN ((end \div DialSize) - (start \div DialSize)) % DialSize

\* The loop of solve_part2 of day01/solution.py from the k-th rotation on.
RECURSIVE solve_part2_loop(_, _, _, _)
solve_part2_loop(rotations, k, position, zero_count) ==
  IF k > Len(rotations) THEN zero_count
  ELSE solve_part2_loop(rotations, k + 1,
         rotate_dial(position, rotations[k][1], rotations[k][2]),
         zero_count + count_zeros_during_rotation(position, rotations[k][1], rotations[k][2]))

solve_part2(rotations) == solve_part2_loop(rotations, 1, DialStart, 0)

\* rotate_dial of day1.py.
day1_rotate_dial(current_pos, direction, distance) ==
  IF direction = "L" THEN (current_pos - distance) % DialSize
  ELSE (current_pos + distance) % DialSize

\* The loop of count_zeros_during_rotation of day1.py with n clicks left.
RECURSIVE day1_click_loop(_, _, _, _)
day1_click_loop(current, direction, n, count) ==
  IF n = 0 THEN count
  ELSE LET next == IF direction = "L" THEN (current - 1) % DialSize
                   ELSE (current + 1) % DialSize
       IN day1_click_loop(next, direction, n - 1, IF next = 0 THEN count + 1 ELSE count)

\* count_zeros_during_rotation of day1.py.
day1_count_zeros_during_rotation(start_pos, direction, distance) ==
  day1_click_loop(start_pos, direction, distance, 0)

\* The loop of solve_part2 of day1.py from the k-th rotation on.
RECURSIVE day1_solve_part2_loop(_, _, _, _)
day1_solve_part2_loop(rotations, k, position, zero_count) ==
  IF k > Len(rotations) THEN zero_count
  ELSE day1_solve_part2_loop(rotations, k + 1,
         day1_rotate_dial(position, rotations[k][1], rotations[k][2]),
         zero_count + day1_count_zeros_during_rotation(position, rotations[k][1],
                                                       rotations[k][2]))

day1_solve_part2(rotations) == day1_solve_part2_loop(rotations, 1, DialStart, 0)

\* Rotation lists as parse_rotation hands them over: distances of no, a
\* quarter, a half, three quarters of a turn and more.
RotationLists ==
  UNION {[1..n -> {"L", "R"} \X {(DialSize \div 4) * d : d \in 0..MaxListDistance}] :
           n \in 0..MaxRotations}

\* One rotation from any position of the dial, or a list of rotations.
InitDial ==
  /\ NoProgram
  /\ \/ \E start_pos \in 0..(DialSize - 1), direction \in {"L", "R"},
           distance \in 0..MaxDistance :
          call = [pc |-> "rotation", start_pos |-> start_pos, direction |-> direction,
                  distance |-> distance]
     \/ \E rotations \in RotationLists : call = [pc |-> "rotations", rotations |-> rotations]

\* count_zeros_during_rotation of both files is applied to the rotation.
DialCountZeros ==
  /\ call.pc = "rotation"
  /\ call' = [pc |-> "counted", start_pos |-> call.start_pos, direction |-> call.direction,
              distance |-> call.distance,
              zeros |-> count_zeros_during_rotation(call.start_pos, call.direction,
                                                    call.distance),
              day1_zeros |-> day1_count_zeros_during_rotation(call.start_pos, call.direction,
                                                              call.distance)]
  /\ UNCHANGED programVars

\* solve_part2 of both files is applied to the rotation list.
DialSolvePart2 ==
  /\ call.pc = "rotations"
  /\ call' = [pc |-> "solved", rotations |-> call.rotations,
              result_part2 |-> solve_part2(call.rotations),
              day1_result_part2 |-> day1_solve_part2(call.rotations)]
  /\ UNCHANGED programVars

NextDial == DialCountZeros \/ DialSolvePart2

SpecDial == InitDial /\ [][NextDial]_vars

\* -------------------------------------- src/day08/solution.py, src/day8.py
\* Bounds of the junction boxes.
MaxBoxes == 5
MaxBoxX == 8
MaxConnections == 3

\* Line 129 of day08/solution.py: at least 3 boxes are needed.
MinBoxes == 3

\* dist of day08/solution.py (lines 137-139): the squared distance.
squared_distance(box_i, box_j) ==
  (box_j[1] - box_i[1]) * (box_j[1] - box_i[1])
  + (box_j[2] - box_i[2]) * (box_j[2] - box_i[2])
  + (box_j[3] - box_i[3]) * (box_j[3] - box_i[3])

\* distance of day8.py (lines 17-21) is the float square root of that sum; the
\* heap only compares distances, and the square root keeps the order and the
\* ties of the sums of this model, so it is represented by the sum.
day8_distance(box1, box2) ==
  (box2[1] - box1[1]) * (box2[1] - box1[1])
  + (box2[2] - box1[2]) * (box2[2] - box1[2])
  + (box2[3] - box1[3]) * (box2[3] - box1[3])

\* Tuples (dist, i, j) compare as Python tuples do.
TupleLess(a, b) ==
  \/ a[1] < b[1]
  \/ a[1] = b[1] /\ a[2] < b[2]
  \/ a[1] = b[1] /\ a[2] = b[2] /\ a[3] < b[3]

\* The order in which heapq.heappop hands out the tuples pushed: ascending.
RECURSIVE heap_order(_)
heap_order(S) ==
  IF S = {} THEN <<>>
  ELSE LET least == CHOOSE a \in S : \A b \in S \ {a} : TupleLess(a, b)
       IN <<least>> \o heap_order(S \ {least})

\* The heap of day08/solution.py (lines 134-140), boxes numbered from 0.
distances_heap(boxes) ==
  heap_order({<<squared_distance(boxes[ij[1] + 1], boxes[ij[2] + 1]), ij[1], ij[2]>> :
                ij \in {x \in (0..(Len(boxes) - 1)) \X (0..(Len(boxes) - 1)) : x[1] < x[2]}})

\* The heap of day8.py (lines 82-86).
day8_distances_heap(boxes) ==
  heap_order({<<day8_distance(boxes[ij[1] + 1], boxes[ij[2] + 1]), ij[1], ij[2]>> :
                ij \in {x \in (0..(Len(boxes) - 1)) \X (0..(Len(boxes) - 1)) : x[1] < x[2]}})

\* UnionFind.__init__ (the class has the same text in both files).
UnionFind(size) ==
  [parent |-> [x \in 0..(size - 1) |-> x],
   rank |-> [x \in 0..(size - 1) |-> 0],
   size |-> [x \in 0..(size - 1) |-> 1]]

\* UnionFind.find with path compression: the root and the structure after.
RECURSIVE find(_, _)
find(uf, x) ==
  IF uf.parent[x] # x
  THEN LET up == find(uf, uf.parent[x])
       IN [root |-> up.root, uf |-> [up.uf EXCEPT !.parent[x] = up.root]]
  ELSE [root |-> x, uf |-> uf]

\* UnionFind.union by rank: whether the sets were merged and the structure
\* after.
union(uf, x, y) ==
  LET fx == find(uf, x)
      fy == find(fx.uf, y)
      u == fy.uf
      root_x == fx.root
      root_y == fy.root
  IN IF root_x = root_y THEN [merged |-> FALSE, uf |-> u]
     ELSE IF u.rank[root_x] < u.rank[root_y]
     THEN [merged |-> TRUE,
           uf |-> [u EXCEPT !.parent[root_x] = root_y,
                            !.size[root_y] = u.size[root_y] + u.size[root_x]]]
     ELSE IF u.rank[root_x] > u.rank[root_y]
     THEN [merged |-> TRUE,
           uf |-> [u EXCEPT !.parent[root_y] = root_x,
                            !.size[root_x] = u.size[root_x] + u.size[root_y]]]
     ELSE [merged |-> TRUE,
           uf |-> [u EXCEPT !.parent[root_y] = root_x,
                            !.size[root_x] = u.size[root_x] + u.size[root_y],
                            !.rank[root_x] = u.rank[root_x] + 1]]

\* sorted(values, reverse=True) of the sizes of the roots in R.
RECURSIVE sorted_sizes(_, _)
sorted_sizes(uf, R) ==
  IF R = {} THEN <<>>
  ELSE LET big == CHOOSE r \in R : \A o \in R : uf.size[r] >= uf.size[o]
       IN <<uf.size[big]>> \o sorted_sizes(uf, R \ {big})

\* UnionFind.get_circuit_sizes followed by the descending sort (done inside
\* the method in day08/solution.py, by the caller in day8.py line 107).
get_circuit_sizes(uf) ==
  sorted_sizes(uf, {find(uf, i).root : i \in DOMAIN uf.parent})

\* The connection loop of day08/solution.py (lines 146-150).
RECURSIVE connect_loop(_, _, _, _, _)
connect_loop(distances, uf, connections_made, num_connections, popped) ==
  IF connections_made < num_connections /\ distances # <<>>
  THEN LET u == union(uf, Head(distances)[2], Head(distances)[3])
       IN connect_loop(Tail(distances), u.uf,
                       IF u.merged THEN connections_made + 1 ELSE connections_made,
                       num_connections, Append(popped, Head(distances)))
  ELSE [uf |-> uf, popped |-> popped]

\* What a call ends with: a returned value, or the exit or exception named.
Returned(value) == [kind |-> "return", value |-> value]
Ended(kind) == [kind |-> kind, value |-> 0]

\* solve_part1 of day08/solution.py: the pairs popped and the value returned
\* ("exit" for sys.exit(1) at line 131).
solve_part1(boxes, num_connections) ==
  LET done == connect_loop(distances_heap(boxes), UnionFind(Len(boxes)), 0,
                           num_connections, <<>>)
      circuit_sizes == get_circuit_sizes(done.uf)
  IN IF Len(boxes) < MinBoxes THEN [popped |-> <<>>, result |-> Ended("exit")]
     ELSE IF Len(circuit_sizes) < 3 THEN [popped |-> done.popped, result |-> Returned(0)]
     ELSE [popped |-> done.popped,
           result |-> Returned(circuit_sizes[1] * circuit_sizes[2] * circuit_sizes[3])]

\* The connection loop of day8.py (lines 94-101) with n passes left.
RECURSIVE day8_connect_loop(_, _, _, _)
day8_connect_loop(distances, uf, n, popped) ==
  IF n = 0 \/ distances = <<>> THEN [uf |-> uf, popped |-> popped]
  ELSE day8_connect_loop(Tail(distances),
                         union(uf, Head(distances)[2], Head(distances)[3]).uf,
                         n - 1, Append(popped, Head(distances)))

\* solve_part1 of day8.py ("IndexError" when circuit_sizes has fewer than three
\* entries at line 113).
day8_solve_part1(boxes, num_connections) ==
  LET done == day8_connect_loop(day8_distances_heap(boxes), UnionFind(Len(boxes)),
                                num_connections, <<>>)
      circuit_sizes == get_circuit_sizes(done.uf)
  IN IF Len(circuit_sizes) < 3 THEN [popped |-> done.popped, result |-> Ended("IndexError")]
     ELSE [popped |-> done.popped,
           result |-> Returned(circuit_sizes[1] * circuit_sizes[2] * circuit_sizes[3])]

\* The box files of n boxes at the places xs of a line, in ascending or
\* descending order of x.
BoxLists(xs) ==
  LET n == Cardinality(xs)
      ascending == [k \in 1..n |-> CHOOSE x \in xs : Cardinality({y \in xs : y < x}) = k - 1]
  IN {[k \in 1..n |-> <<ascending[k], 0, 0>>], [k \in 1..n |-> <<ascending[n + 1 - k], 0, 0>>]}

InitBoxes ==
  /\ NoProgram
  /\ \E xs \in {x \in SUBSET (0..MaxBoxX) :
                   MinBoxes <= Cardinality(x) /\ Cardinality(x) <= MaxBoxes} :
       \E boxes \in BoxLists(xs), num_connections \in 0..MaxConnections :
         call = [pc |-> "boxes", boxes |-> boxes, num_connections |-> num_connections]

\* solve_part1 of day08/solution.py is applied.
BoxesSolve ==
  /\ call.pc = "boxes"
  /\ LET r == solve_part1(call.boxes, call.num_connections)
     IN call' = [pc |-> "solved08", boxes |-> call.boxes,
                 num_connections |-> call.num_connections,
                 popped |-> r.popped, result |-> r.result]
  /\ UNCHANGED programVars

\* solve_part1 of day8.py is applied to the same boxes.
BoxesSolveDay8 ==
  /\ call.pc = "solved08"
  /\ LET r == day8_solve_part1(call.boxes, call.num_connections)
     IN call' = [pc |-> "connected", boxes |-> call.boxes,
                 num_connections |-> call.num_connections,
                 popped |-> call.popped, result |-> call.result,
                 day8_popped |-> r.popped, day8_result |-> r.result]
  /\ UNCHANGED programVars

NextBoxes == BoxesSolve \/ BoxesSolveDay8

SpecBoxes == InitBoxes /\ [][NextBoxes]_vars

\* ------------------------------------------------ src/day05/solution.py
\* Bounds of the day-5 files.
MaxNumeral == 1
MaxRangeLines == 2
MaxIdLines == 1

\* A line of the file is the sequence of its characters, newline included.
Newline == "\n"
Whitespace == {" ", Newline}
Digits == <<"0", "1", "2", "3", "4", "5", "6", "7", "8", "9">>

\* str.strip(): leading and trailing whitespace removed.
RECURSIVE strip(_)
strip(line) ==
  IF line = <<>> THEN <<>>
  ELSE IF Head(line) \in Whitespace THEN strip(Tail(line))
  ELSE IF line[Len(line)] \in Whitespace THEN strip(SubSeq(line, 1, Len(line) - 1))
  ELSE line

\* int(s) of a string of digits; "ValueError" for any other string.
RECURSIVE int_digits(_)
int_digits(str) ==
  IF str = <<>> THEN 0
  ELSE 10 * int_digits(SubSeq(str, 1, Len(str) - 1))
       + (CHOOSE d \in 0..9 : Digits[d + 1] = str[Len(str)])

IsInt(str) == str # <<>> /\ \A k \in 1..Len(str) : \E d \in 0..9 : Digits[d + 1] = str[k]

\* line.split('-', 1): the part before the first '-' and the part after it, or
\* the whole line when it holds no '-'.
split_dash(line) ==
  IF \E k \in 1..Len(line) : line[k] = "-"
  THEN LET k == SetMin({x \in 1..Len(line) : line[x] = "-"})
       IN <<SubSeq(line, 1, k - 1), SubSeq(line, k + 1, Len(line))>>
  ELSE <<line>>

\* Line 44: lines = [line.strip() for line in f if line.strip()].
read_lines(file) ==
  LET stripped == [k \in 1..Len(file) |-> strip(file[k])]
  IN SelectSeq(stripped, LAMBDA line : line # <<>>)

\* What parse_input ends with: the two lists, or the format error printed
\* before sys.exit(1) (lines 66-68).
Parsed(ranges, ingredient_ids) ==
  [kind |-> "return", ranges |-> ranges, ingredient_ids |-> ingredient_ids]
FormatError == [kind |-> "exit", ranges |-> <<>>, ingredient_ids |-> <<>>]

\* Lines 49-68 of parse_input on the lines read: lines.index('') raises
\* ValueError when no line is empty, as does int() on a string that is not a
\* number and the unpacking of a split that has one part.
parse_lines(lines) ==
  IF ~\E k \in 1..Len(lines) : lines[k] = <<>> THEN FormatError
  ELSE LET separator == SetMin({k \in 1..Len(lines) : lines[k] = <<>>})
           range_lines == SubSeq(lines, 1, separator - 1)
           id_lines == SubSeq(lines, separator + 1, Len(lines))
           well_formed(line) ==
             /\ Len(split_dash(line)) = 2
             /\ IsInt(split_dash(line)[1]) /\ IsInt(split_dash(line)[2])
       IN IF \E k \in 1..Len(range_lines) : ~well_formed(range_lines[k])
          THEN FormatError
          ELSE IF \E k \in 1..Len(id_lines) : ~IsInt(id_lines[k]) THEN FormatError
          ELSE Parsed([k \in 1..Len(range_lines) |->
                         [start |-> int_digits(split_dash(range_lines[k])[1]),
                          end |-> int_digits(split_dash(range_lines[k])[2])]],
                      [k \in 1..Len(id_lines) |-> int_digits(id_lines[k])])

\* parse_input on a file that exists.
parse_input(file) == parse_lines(read_lines(file))

\* The numbers written in the files, with their text.
Numerals ==
  {[text |-> <<Digits[d + 1]>>, value |-> d] : d \in 0..MaxNumeral}
    \cup {[text |-> <<"1", "0">>, value |-> 10]}

\* The text of a well-formed file: range lines, a blank line, id lines.
FileText(range_numerals, id_numerals) ==
  [k \in 1..Len(range_numerals) |->
     range_numerals[k][1].text \o <<"-">> \o range_numerals[k][2].text \o <<Newline>>]
  \o << <<Newline>> >>
  \o [k \in 1..Len(id_numerals) |-> id_numerals[k].text \o <<Newline>>]

\* A well-formed file of one to MaxRangeLines range lines and at most
\* MaxIdLines id lines, with the lists it stands for.
InitParse ==
  /\ NoProgram
  /\ \E n \in 1..MaxRangeLines, k \in 0..MaxIdLines :
       \E rs \in [1..n -> Numerals \X Numerals], ids \in [1..k -> Numerals] :
          call = [pc |-> "file", file |-> FileText(rs, ids),
                  ranges |-> [i \in 1..n |-> [start |-> rs[i][1].value, end |-> rs[i][2].value]],
                  ids |-> [i \in 1..k |-> ids[i].value]]

\* Lines 43-44: the file is read.
ParseRead ==
  /\ call.pc = "file"
  /\ call' = [pc |-> "lines", file |-> call.file, ranges |-> call.ranges, ids |-> call.ids,
              lines |-> read_lines(call.file)]
  /\ UNCHANGED programVars

\* Lines 49-68: the lines are split and converted.
ParseLines ==
  /\ call.pc = "lines"
  /\ call' = [pc |-> "parsed", file |-> call.file, ranges |-> call.ranges, ids |-> call.ids,
              lines |-> call.lines, result |-> parse_lines(call.lines)]
  /\ UNCHANGED programVars

NextParse == ParseRead \/ ParseLines

SpecParse == InitParse /\ [][NextParse]_vars

\* Both programs applied to the same shapes and region: region_worker of
\* solution_fixed.py (build, then DLX.search run to its end) and
\* can_fill_region of solution.py.
VariantsVerdicts ==
  /\ call.pc = "region"
  /\ call' = [pc |-> "variants", w |-> call.w, h |-> call.h, counts |-> call.counts,
              oris |-> call.oris,
              required_area |-> total_cells_needed(call.oris, call.counts),
              exact_cover |-> region_worker_in_order(call.w, call.h, call.counts, call.oris,
                                                     instance_map(call.counts)),
              backtracking |-> can_fill_region(call.w, call.h, call.oris_solution,
                                               call.counts).ok]
  /\ UNCHANGED programVars

NextVariants == VariantsVerdicts

SpecVariants == InitOrder /\ [][NextVariants]_vars

\* The runs of solution_fixed.py.
InitFixed == Init /\ prog = "solution_fixed"
NextFixed == Main \/ Worker

\* The runs in which main keeps running: each of its steps returns (the join
\* of line 335 is bounded by TIMEOUT_PER_REGION, terminate and the join of
\* line 338 end the worker).  Nothing is assumed of the worker: it may stay in
\* its search for ever.
SpecLive == InitFixed /\ [][NextFixed]_vars /\ WF_vars(Main)

\* The worker on its own: main starts it on the first region and then only
\* waits; no timeout ends the join and the worker is never terminated.
\* max_nodes of DLX.search is read nowhere in the code and has no counterpart
\* here.
NextSearch == MainSpawn \/ Worker

\* SearchSelect can be taken: its guard.
SelectEnabled ==
  proc = "alive" /\ wpc = "loop" /\ Top.i <= Len(Top.rows_covering)

\* The search keeps running: it is sequential code of one process without a
\* blocking call, so a step of the search that can be taken is taken.  The
\* last conjunct is weak fairness of SearchSelect with its enabling condition
\* written out.
SpecSearch ==
  /\ InitFixed /\ [][NextSearch]_vars
  /\ WF_vars(SearchCall) /\ WF_vars(SearchBacktrack) /\ WF_vars(SearchExhausted)
  /\ WF_vars(SearchReturnTrue)
  /\ (<>[]SelectEnabled => []<><<SearchSelect>>_vars)

\* ------------------------------------------------- reference definitions
\* What the claims speak of, stated without the solver: the region the worker
\* was started on, its required area, the in-bounds placements of a shape as
\* sets of board cells, and whether an exact tiling exists.
WorkerStarted == wargs.idx >= 0
CurRegion == regions[wargs.idx + 1]
CurW == CurRegion.w
CurH == CurRegion.h
BoardCellsOf(reg) == {<<r, c>> : r \in 0..(reg.h - 1), c \in 0..(reg.w - 1)}
RequiredIn(reg, idx) == IF idx + 1 <= Len(reg.counts) THEN reg.counts[idx + 1] ELSE 0
Required(idx) == RequiredIn(CurRegion, idx)
AreaOf(idx) == SetMax({Cardinality(o) : o \in shape_oris[idx]})

RECURSIVE SumOver(_, _)
SumOver(S, f) ==
  IF S = {} THEN 0
  ELSE LET x == CHOOSE y \in S : TRUE IN f[x] + SumOver(S \ {x}, f)

RequiredArea ==
  SumOver(DOMAIN shape_oris, [idx \in DOMAIN shape_oris |-> Required(idx) * AreaOf(idx)])
RequiredInstances == SumOver(DOMAIN shape_oris, [idx \in DOMAIN shape_oris |-> Required(idx)])

Translate(o, top, left) == {<<p[1] + top, p[2] + left>> : p \in o}
InBoundsPlacementsIn(reg, idx) ==
  {P \in {Translate(o, a[1], a[2]) :
             o \in shape_oris[idx], a \in (0..(reg.h - 1)) \X (0..(reg.w - 1))} :
      P \subseteq BoardCellsOf(reg)}
InBoundsPlacements(idx) == InBoundsPlacementsIn(CurRegion, idx)

\* Can the shapes still required (need: shape idx -> count) tile exactly the
\* free cells of the region's board, without overlap and without gap?
RECURSIVE CanTile(_, _, _)
CanTile(reg, need, free) ==
  IF \A idx \in DOMAIN need : need[idx] = 0 THEN free = {}
  ELSE LET idx == CHOOSE i \in DOMAIN need : need[i] > 0
       IN \E P \in InBoundsPlacementsIn(reg, idx) :
             /\ P \subseteq free
             /\ CanTile(reg, [need EXCEPT ![idx] = need[idx] - 1], free \ P)

TilingExistsIn(reg) ==
  CanTile(reg, [idx \in DOMAIN shape_oris |-> RequiredIn(reg, idx)], BoardCellsOf(reg))
TilingExists == TilingExistsIn(CurRegion)

\* The board cell of a cell column, and the cells a row of the matrix covers.
CellOfColumn(col) == <<col \div CurW, col % CurW>>
CellColumns(row) == {col \in SeqRange(row) : col < CurW * CurH}
CellsOfRow(row) == {CellOfColumn(col) : col \in CellColumns(row)}
InstanceColumns(row) == {col \in SeqRange(row) : col >= CurW * CurH}

\* The shape of the instance with instance column col, counting the
\* instances shape by shape in the order of the counts.
RECURSIVE ShapeOfInstance(_, _)
ShapeOfInstance(k, idx) ==
  IF k < Required(idx) THEN idx ELSE ShapeOfInstance(k - Required(idx), idx + 1)

SolutionRows == [k \in 1..Len(dlx.solution) |-> dlx.rows[dlx.solution[k] + 1]]

\* The worker has finished and its verdict is in the queue.
Reported == WorkerStarted /\ q # <<>>
Verdict == Head(q)[2]

\* ------------------------------------------------------------------ claims
\* C1 (soundness): whenever DLX.search has reported the region satisfiable,
\* dlx.solution holds exactly one row per required instance, each the row of an
\* in-bounds placement of that instance's shape; the rows are pairwise
\* column-disjoint and together cover each of the w*h cell columns and each
\* instance column exactly once.
C1_Soundness ==
  (WorkerStarted /\ dlx.found) =>
    /\ Len(SolutionRows) = RequiredInstances
    /\ \A k \in 1..Len(SolutionRows) :
         /\ Cardinality(InstanceColumns(SolutionRows[k])) = 1
         /\ \A col \in InstanceColumns(SolutionRows[k]) :
              /\ col - CurW * CurH < RequiredInstances
              /\ CellsOfRow(SolutionRows[k])
                   \in InBoundsPlacements(ShapeOfInstance(col - CurW * CurH, 0))
         /\ Len(SolutionRows[k]) = Cardinality(SeqRange(SolutionRows[k]))
    /\ \A k1, k2 \in 1..Len(SolutionRows) :
         k1 # k2 => SeqRange(SolutionRows[k1]) \cap SeqRange(SolutionRows[k2]) = {}
    /\ UNION {SeqRange(SolutionRows[k]) : k \in 1..Len(SolutionRows)}
         = 0..(CurW * CurH + RequiredInstances - 1)

\* C1 witness: a search that returned True with a cover of three placements.
C1_Witness == WorkerStarted /\ wpc = "put" /\ ok = "True" /\ Len(dlx.solution) >= 3

\* Every shape of the table has cells.
NonEmptyShapes == \A idx \in DOMAIN shape_oris : {} \notin shape_oris[idx]

\* C2 (completeness): for tables of shapes with cells, the verdict a worker that ran to completion reports is
\* True exactly when an exact tiling of the board by the required instances
\* exists, False otherwise.
C2_Completeness ==
  (Reported /\ NonEmptyShapes) =>
     /\ Verdict \in {"True", "False"}
     /\ (Verdict = "True") <=> TilingExists

\* C2 witness: four unit cells on a 2x2 board are reported satisfiable
\* (scenario B).
C2_Witness ==
  /\ Reported /\ Verdict = "True"
  /\ CurW = 2 /\ CurH = 2 /\ RequiredInstances = 4 /\ RequiredArea = 4

\* C3 as stated: whenever the required area differs from w*h, the solver
\* answers Unsatisfiable without DLX.search ever being invoked for the region.
C3_AreaMismatchNeverSearches ==
  (WorkerStarted /\ RequiredArea # CurW * CurH) =>
    /\ phase # "Searching"
    /\ Reported => Verdict = "False"

\* C3 amended: whenever the required area exceeds w*h, build returns
\* (None, None) at the area check, no DLX object is constructed, DLX.search
\* is never invoked, and the verdict is False.
C3_AreaExcessNeverSearches ==
  (WorkerStarted /\ RequiredArea > CurW * CurH) =>
    /\ phase \in {"Unevaluated", "AreaCheckFailed"}
    /\ dlx = NoDLX /\ stack = <<>>
    /\ wpc \in {"put", "exit"} => ok = "False"
    /\ Reported => Verdict = "False"

\* C3 witness: a region rejected by the area check whose False is in the queue.
C3_Witness ==
  Reported /\ Verdict = "False" /\ phase = "AreaCheckFailed" /\ RequiredArea > CurW * CurH

\* C4: whenever the required area differs from w*h, the verdict of a worker
\* that ran to completion is False.
C4_AreaMismatchUnsatisfiable ==
  (Reported /\ RequiredArea # CurW * CurH) => Verdict = "False"

\* C4 witness: one unit cell on a 2x2 board (scenario A): the search ran and
\* the verdict is False.
C4_Witness ==
  /\ Reported /\ Verdict = "False" /\ phase = "Searching"
  /\ CurW = 2 /\ CurH = 2 /\ RequiredInstances = 1 /\ RequiredArea = 1

\* C5: whenever some required shape has no in-bounds placement on the board,
\* DLX.search is never invoked for the region and the verdict is False.
C5_ZeroPlacementNeverSearches ==
  (WorkerStarted /\ \E idx \in DOMAIN shape_oris :
                       Required(idx) > 0 /\ InBoundsPlacements(idx) = {}) =>
    /\ phase \in {"Unevaluated", "AreaCheckFailed", "ZeroPlacementShape"}
    /\ dlx = NoDLX /\ stack = <<>>
    /\ wpc \in {"put", "exit"} => ok = "False"
    /\ Reported => Verdict = "False"

\* C5 witness: the required area equals w*h, a required shape has no
\* placement (scenario D), and the worker's False is in the queue.
C5_Witness ==
  /\ Reported /\ Verdict = "False" /\ phase = "ZeroPlacementShape"
  /\ RequiredArea = CurW * CurH

Last(s) == s[Len(s)]

\* The step of main that records the verdict of the current region.
Records == mpc = "check" /\ mpc' = "loop"

\* The worker has run to completion and concluded that its region is
\* impossible: a pre-check rejected it, or the search was exhausted.
WorkerConcludedImpossible ==
  /\ proc = "exited" /\ wpc = "exit" /\ ok = "False"
  /\ \/ phase \in {"AreaCheckFailed", "ZeroPlacementShape", "NoRows"}
     \/ phase = "Searching" /\ stack = <<>> /\ ~dlx.found

\* C6 as stated: whenever the worker was alive when p.join(TIMEOUT) returned,
\* the verdict recorded for the region is None, reported as TIMEOUT.
C6_AliveAtJoinRecordsNone ==
  [][(Records /\ join_alive) =>
       (Last(results') = "None" /\ Last(printed') = "TIMEOUT")]_vars

\* C6 amended: whenever p.is_alive() finds the worker alive after the join,
\* the verdict recorded is None, reported as TIMEOUT, never False; and a
\* recorded False is always the verdict that a worker which ran to completion
\* put after concluding itself that the region is impossible.
C6_ObservedAliveRecordsNone ==
  [][/\ (Records /\ proc = "alive") =>
          (results' = Append(results, "None") /\ printed' = Append(printed, "TIMEOUT"))
     /\ (Records /\ Last(results') = "False") =>
          (WorkerConcludedImpossible /\ q = << <<rid, "False">> >>)]_vars

\* C6 witness: a search cut by the timeout, recorded as None / TIMEOUT.
C6_Witness ==
  /\ proc = "terminated" /\ phase = "Searching"
  /\ results # <<>> /\ Last(results) = "None" /\ Last(printed) = "TIMEOUT"

\* C7: under every interleaving, the step that terminates a worker reads
\* nothing from its queue and records None without touching total_ok; the
\* queue of a terminated worker is only ever replaced by the next region's;
\* and total_ok grows, by one, only when the worker of the current region has
\* ended after its search found a cover and it put True.
C7_TerminatedWorkerContributesNothing ==
  [][/\ (Records /\ proc = "alive") =>
          (q' = q /\ results' = Append(results, "None") /\ total_ok' = total_ok)
     /\ (proc = "terminated" /\ q' # q) => (mpc = "loop" /\ q' = <<>> /\ proc' = "alive")
     /\ (total_ok' # total_ok) =>
          /\ total_ok' = total_ok + 1
          /\ Records /\ proc = "exited" /\ wargs.idx = rid
          /\ q = << <<rid, "True">> >>
          /\ phase = "Searching" /\ dlx.found /\ AllColumnsInactive(dlx)]_vars

\* C7 witness: the worker had found a cover and put True, the parent still
\* saw it alive and terminated it: the region is recorded as None and the
\* True in the queue is never read.
C7_Witness ==
  /\ proc = "terminated" /\ q = << <<wargs.idx, "True">> >>
  /\ Last(results) = "None" /\ total_ok = 0

PhasesNamed == {"AreaCheckFailed", "ZeroPlacementShape", "Searching"}
PhasesReached == PhasesNamed \cup {"NoRows", "Error"}

\* C8 as stated, for the regions whose worker ran to completion: one verdict
\* per region, reported as True, False or TIMEOUT, and the worker went through
\* AreaCheckFailed, ZeroPlacementShape or Searching.
C8_ThreeIntermediateStates ==
  /\ Len(results) = rid
  /\ \A i \in 1..Len(printed) : printed[i] \in {"True", "False", "TIMEOUT"}
  /\ proc = "exited" => phase \in PhasesNamed

\* C8 amended: every region leaves Unevaluated at most once, for one of
\* AreaCheckFailed, ZeroPlacementShape, NoRows (no instance required, line
\* 293), Error (exception in the worker) or Searching; the timeout may cut it
\* in any of these states, Unevaluated included; exactly one verdict is
\* recorded per region: True only out of Searching, False out of
\* AreaCheckFailed, ZeroPlacementShape, NoRows or Searching, None for a
\* timeout or an error; a recorded verdict never changes and a recorded
\* region is never started again.
C8_RegionStateMachine ==
  /\ [](/\ Len(results) = rid /\ Len(printed) = rid
        /\ rid <= Len(regions)
        /\ phase \in PhasesReached \cup {"Unevaluated"}
        /\ proc = "exited" => phase \in PhasesReached
        /\ \A i \in 1..Len(results) :
             \/ results[i] \in {"True", "False"} /\ printed[i] = results[i]
             \/ results[i] = "None" /\ printed[i] \in {"TIMEOUT", "None", "ERROR"})
  /\ [][/\ phase' # phase =>
             \/ phase' = "Unevaluated" /\ mpc = "loop" /\ wargs'.idx = rid
             \/ phase = "Unevaluated" /\ phase' \in PhasesReached
        /\ results' # results =>
             /\ Records /\ wargs.idx = rid /\ rid' = rid + 1
             /\ \E v \in {"True", "False", "None"} : results' = Append(results, v)
             /\ Last(results') = "True" => phase = "Searching"
             /\ Last(results') = "False" => phase \in PhasesReached \ {"Error"}
             /\ Last(printed') = "None" => phase = "Error"
        /\ wargs' # wargs => wargs'.idx = Len(results)]_vars

\* C8 witness: a region that requires no instance was recorded as False out
\* of NoRows.
C8_Witness ==
  /\ mpc = "loop" /\ rid = 1 /\ phase = "NoRows"
  /\ results = <<"False">> /\ printed = <<"False">>

\* C9: in every run in which main keeps running, whatever the worker does,
\* main ends with one verdict recorded for every region of the input.
C9_BatchNeverBlocked == <>(mpc = "done" /\ Len(results) = Len(regions))

\* C9 witness: main has ended a batch in which a search was cut by the
\* timeout and the next region was still evaluated.
C9_Witness ==
  /\ mpc = "done" /\ Len(regions) = 2
  /\ results[1] = "None" /\ printed[1] = "TIMEOUT" /\ results[2] = "True"

\* The verdict of a region evaluated alone and to completion by
\* solution_fixed.py: None when the build of the region raises.
SoloVerdict(reg) ==
  IF build_exact_cover_for_region(reg.w, reg.h, shape_oris, reg.counts).kind = "Error"
  THEN "None"
  ELSE IF TilingExistsIn(reg) THEN "True" ELSE "False"

\* Can the shapes still required be placed on the free cells of the region's
\* board without overlap (cells may stay free)?
RECURSIVE CanPack(_, _, _)
CanPack(reg, need, free) ==
  IF \A idx \in DOMAIN need : need[idx] = 0 THEN TRUE
  ELSE LET idx == CHOOSE i \in DOMAIN need : need[i] > 0
       IN \E P \in InBoundsPlacementsIn(reg, idx) :
             /\ P \subseteq free
             /\ CanPack(reg, [need EXCEPT ![idx] = need[idx] - 1], free \ P)

PackingExistsIn(reg) ==
  CanPack(reg, [idx \in DOMAIN shape_oris |-> RequiredIn(reg, idx)], BoardCellsOf(reg))

\* The verdict of a region evaluated alone by can_fill_region of solution.py.
SoloVerdictSolveAll(reg) == IF PackingExistsIn(reg) THEN "True" ELSE "False"

\* C10: in both programs no step changes the orientation table or the parsed
\* regions, and whenever the program is between two regions or at its end,
\* every verdict recorded so far is the one the region gets when evaluated
\* alone (None when its build raises; or, in solution_fixed.py, None for a
\* timeout), whatever was processed before; solve_all ends with an exception
\* only for a table with a shape without cells; every worker of solution_fixed.py starts from no DLX, an
\* empty stack and a new empty queue, and enters its search with a DLX built
\* from its own region alone, all flags active, no row selected; every call of
\* can_fill_region starts from an empty memo set, so that what an earlier
\* region left in it never decides a later one.
C10_RegionIsolation ==
  /\ [](/\ mpc \in {"loop", "done"} =>
             \A i \in 1..Len(results) :
                \/ results[i] = SoloVerdict(regions[i]) /\ printed[i] = results[i]
                \/ results[i] = "None" /\ printed[i] = "TIMEOUT"
        /\ sa.pc = "raised" => ~NonEmptyShapes
        /\ \A i \in 1..Len(sa.results) : sa.results[i] = SoloVerdictSolveAll(regions[i])
        /\ (wpc = "call" /\ stack = <<>>) =>
             LET b == build_exact_cover_for_region(CurW, CurH, shape_oris, CurRegion.counts)
             IN dlx = DLX_init(b.n_cols, b.rows))
  /\ [][/\ shape_oris' = shape_oris
        /\ regions' = regions
        /\ wargs' # wargs => (dlx' = NoDLX /\ stack' = <<>> /\ q' = <<>> /\ ok' = "None")]_vars

\* C10 witness: in a batch of two equal regions, the first was cut by the
\* timeout and the second was then found to fit.
C10_Witness ==
  /\ Len(regions) = 2 /\ regions[1] = regions[2]
  /\ results = <<"None", "True">>
  /\ mpc = "done"

\* ---------------------------------------------------- claims on geometry
Oriented == call.pc = "oriented"
Placed == call.pc = "placed"

\* Translated so that the least row and the least column are 0.
IsNormalized(o) ==
  o = {} \/ (SetMin({p[1] : p \in o}) = 0 /\ SetMin({p[2] : p \in o}) = 0)

\* C11: for every finite set of cells, the orientations all_orientations
\* returns (in either program) number 1, 2, 4 or 8, are normalized, so that no
\* two of them are the same cells up to translation, and each has as many
\* cells as the input.
C11_OrientationCount ==
  Oriented =>
    \A oris \in {call.oris, call.oris_solution} :
       /\ Cardinality(oris) \in {1, 2, 4, 8}
       /\ \A o \in oris : IsNormalized(o) /\ Cardinality(o) = Cardinality(call.cells)
       /\ \A o1 \in oris : \A o2 \in oris : normalize(o1) = normalize(o2) => o1 = o2

\* C11 witness: a shape away from the origin with eight orientations.
C11_Witness ==
  /\ Oriented /\ Cardinality(call.oris) = 8 /\ Cardinality(call.oris_solution) = 8
  /\ ~IsNormalized(call.cells)

\* The shape with bounding box n x n looks the same after a quarter turn and
\* after mirroring left-right, stated on its cells.
Sym4Mirror(S) ==
  /\ S # {}
  /\ LET N == normalize(S)
         n == SetMax({p[1] : p \in N}) + 1
     IN /\ SetMax({p[2] : p \in N}) + 1 = n
        /\ \A p \in N : <<p[2], n - 1 - p[1]>> \in N /\ <<p[1], n - 1 - p[2]>> \in N

\* C12: a shape unchanged by a quarter turn and by mirroring has exactly one
\* orientation, its normalized cells.
C12_SymmetricShapeOneOrientation ==
  (Oriented /\ Sym4Mirror(call.cells)) =>
    (call.oris = {normalize(call.cells)} /\ call.oris_solution = {normalize(call.cells)})

\* C12 witness: the 2x2 square, given away from the origin.
C12_Witness ==
  /\ Oriented /\ Sym4Mirror(call.cells)
  /\ call.cells = {<<1, 1>>, <<1, 2>>, <<2, 1>>, <<2, 2>>}
  /\ call.oris = {{<<0, 0>>, <<0, 1>>, <<1, 0>>, <<1, 1>>}}

\* The bits of the cells P on a board of width w, as one integer.
RECURSIVE MaskOfCells(_, _)
MaskOfCells(P, w) ==
  IF P = {} THEN 0
  ELSE LET p == CHOOSE x \in P : TRUE
       IN Pow2(p[1] * w + p[2]) + MaskOfCells(P \ {p}, w)

\* The cells of the w x h board, and the translations of the orientation that
\* lie on it.
BoardOf(w, h) == (0..(h - 1)) \X (0..(w - 1))
InBoundsTranslations(ori, w, h) ==
  {P \in {Translate(ori, a[1], a[2]) : a \in (0..h) \X (0..w)} : P \subseteq BoardOf(w, h)}

\* C14: every mask all_placements_for_orientation returns for a normalized
\* orientation on a w x h board has as many bits as the orientation has
\* cells, every bit i is a cell (i \div w, i % w) of the board, and these cells
\* are the orientation translated by one anchor.
C14_MasksAreInBoundsPlacements ==
  (Placed /\ ~call.raised) =>
    \A k \in 1..Len(call.placements) :
       LET B == MaskBits(call.placements[k])
           P == {<<i \div call.w, i % call.w>> : i \in B}
       IN /\ Cardinality(B) = Cardinality(call.ori)
          /\ \A i \in B : 0 <= i \div call.w /\ i \div call.w < call.h
                          /\ 0 <= i % call.w /\ i % call.w < call.w
          /\ \E top \in 0..call.h, left \in 0..call.w : P = Translate(call.ori, top, left)

\* C14 witness: an orientation two cells wide placed on the second row of a
\* board.
C14_Witness ==
  /\ Placed /\ call.ori = {<<0, 0>>, <<0, 1>>, <<1, 1>>}
  /\ call.w = 3 /\ call.h = 3 /\ Len(call.placements) = 4

Max0(x) == IF x > 0 THEN x ELSE 0

\* C15: for a normalized orientation with cells and a w x h board, the masks
\* returned (by either program) are those of the translations that keep every
\* cell on the board, each once; there are max(0, h - maxr) * max(0, w - maxc)
\* of them, none when the orientation is larger than the board.
C15_PlacementsComplete ==
  (Placed /\ ~call.raised) =>
    LET maxr == SetMax({p[1] : p \in call.ori})
        maxc == SetMax({p[2] : p \in call.ori})
        want == {MaskOfCells(P, call.w) : P \in InBoundsTranslations(call.ori, call.w, call.h)}
    IN \A pl \in {call.placements, call.placements_solution} :
          /\ SeqRange(pl) = want
          /\ \A j \in 1..Len(pl) : \A k \in 1..Len(pl) : pl[j] = pl[k] => j = k
          /\ Len(pl) = Max0(call.h - maxr) * Max0(call.w - maxc)
          /\ (maxr + 1 > call.h \/ maxc + 1 > call.w) => pl = <<>>
          /\ call.masks.masks = want /\ call.masks_solution.masks = want

\* C15 witness: a tromino with two placements on a 3 x 2 board.
C15_Witness ==
  /\ Placed /\ call.ori = {<<0, 0>>, <<0, 1>>, <<1, 1>>}
  /\ call.w = 3 /\ call.h = 2
  /\ call.placements = <<19, 38>> /\ call.placements_solution = <<19, 38>>

\* Shape idx has no cell.
NoCells(idx) == \A o \in shape_oris[idx] : o = {}

\* C13: a region that requires a shape without cells is reported
\* unsatisfiable (False) by a worker that ran to completion, without an error
\* and without entering the search.
C13_EmptyShapeRequiredIsUnsatisfiable ==
  (Reported /\ \E idx \in DOMAIN shape_oris : Required(idx) > 0 /\ NoCells(idx)) =>
    (Verdict = "False" /\ phase \notin {"Error", "Searching"})

\* C13 witness: a required shape without cells has the one orientation
\* without cells, the build raised and the worker put None.
C13_Witness ==
  /\ Reported /\ Required(0) > 0 /\ shape_oris[0] = {{}}
  /\ phase = "Error" /\ Verdict = "None"

\* C4 witness of the error: the required area differs from w*h and the
\* worker put None.
C4_ErrorWitness ==
  /\ Reported /\ RequiredArea # CurW * CurH
  /\ phase = "Error" /\ Verdict = "None"

\* C5 witness of the error: a required shape with cells has no placement on
\* the board and the worker put None.
C5_ErrorWitness ==
  /\ Reported /\ phase = "Error" /\ Verdict = "None"
  /\ \E idx \in DOMAIN shape_oris :
        Required(idx) > 0 /\ ~NoCells(idx) /\ InBoundsPlacements(idx) = {}

\* ---------------------------------------------------- claims on the runs
\* Regions i and j of the input are the same region.
SameRegion(i, j) ==
  /\ regions[i].w = regions[j].w /\ regions[i].h = regions[j].h
  /\ PadCounts(regions[i].counts, SetMax(DOMAIN shape_oris))
       = PadCounts(regions[j].counts, SetMax(DOMAIN shape_oris))

IsPrefix(s, t) == Len(s) <= Len(t) /\ s = SubSeq(t, 1, Len(s))

\* C16: two runs of the solver on the same region and shape table that are not
\* cut by the timeout make the same column and row choices in the same order
\* and give the same verdict; a run under way has made the choices with which
\* an earlier complete run on the same region began.
C16_Determinism ==
  /\ \A i \in 1..Len(trace.done) : \A j \in 1..Len(trace.done) :
       (SameRegion(i, j) /\ trace.done[i].complete /\ trace.done[j].complete) =>
         (trace.done[i].choices = trace.done[j].choices /\ results[i] = results[j])
  /\ mpc \in {"join", "check"} =>
       \A i \in 1..Len(trace.done) :
          (SameRegion(i, rid + 1) /\ trace.done[i].complete) =>
            IsPrefix(trace.cur, trace.done[i].choices)

\* C16 witness: the same region was solved twice, each search choosing two
\* columns and two rows.
C16_Witness ==
  /\ Len(trace.done) = 2 /\ SameRegion(1, 2)
  /\ trace.done[1].complete /\ trace.done[2].complete
  /\ Len(trace.done[1].choices) >= 4
  /\ results = <<"True", "True">>

\* C17: whatever the order in which the required instances are expanded into
\* instance columns (solution_fixed.py) or search positions (solution.py), the
\* verdict is the one the program gives with its own order.
C17_VerdictIndependentOfInstanceOrder ==
  call.pc \in {"fixed", "solution"} => call.verdict = call.code_verdict

\* C17 witness: a domino and two diagonal pairs on the 3x2 board, the instances
\* taken in an interleaved order; the exact-cover search finds the tiling
\* after taking rows back.
C17_Witness ==
  /\ call.pc = "fixed" /\ call.w = 3 /\ call.h = 2
  /\ call.code_order = <<0, 1, 1>> /\ call.order = <<1, 0, 1>>
  /\ call.verdict = "True"

\* The number of entries of a results list that are the verdict True.
CountTrue(rs) == Cardinality({i \in 1..Len(rs) : rs[i] = "True"})

\* C18: the aggregate of the day-12 programs (total_ok of main in
\* solution_fixed.py, count_good of solve_all in solution.py) is at every
\* moment the number of regions recorded True so far, and so the number of
\* regions recorded True when it is printed: it is incremented once for each such
\* region and for no region recorded False or None.
C18_AggregateCountsTrueVerdicts ==
  /\ total_ok = CountTrue(results)
  /\ sa.count_good = CountTrue(sa.results)

\* C18 witness: main has handled a batch in which one region was recorded True
\* and one was cut by the timeout; the aggregate is 1.
C18_Witness ==
  /\ mpc = "done"
  /\ results = <<"True", "None">> /\ printed = <<"True", "TIMEOUT">>
  /\ total_ok = 1

\* The number of distinct downward paths from (r, c) that leave the grid: a
\* '^' sends the path to the lower left and the lower right cell, any other
\* cell straight down.
RECURSIVE Timelines(_, _, _)
Timelines(grid, r, c) ==
  IF r >= Len(grid) \/ c < 0 \/ c >= Len(grid[1]) THEN 1
  ELSE IF grid[r + 1][c + 1] = "^"
       THEN Timelines(grid, r + 1, c - 1) + Timelines(grid, r + 1, c + 1)
       ELSE Timelines(grid, r + 1, c)

\* C19: count_timelines returns the number of distinct downward paths from the
\* cell below S that leave the grid through the bottom or a side, and the
\* simulator of day07/solution.py returns the same number.
C19_CountsEveryTimeline ==
  call.pc = "counted" =>
    /\ call.result = Timelines(call.grid, call.start[1] + 1, call.start[2])
    /\ call.timeline_count = call.result

\* C19 witness: a splitter in the middle row of a one-column grid sends both paths out
\* sideways above the last row; both functions return 0.
C19_Witness ==
  /\ call.pc = "counted"
  /\ call.grid = << <<"S">>, <<"^">>, <<".">> >>
  /\ call.result = 0 /\ call.timeline_count = 0

\* The two implementations of count_timelines return the same number.
TimelineCountsAgree ==
  call.pc = "counted" => call.timeline_count = call.result

\* Both count the paths that leave through the bottom row, and only those.
RECURSIVE BottomTimelines(_, _, _)
BottomTimelines(grid, r, c) ==
  IF r >= Len(grid) THEN 1
  ELSE IF c < 0 \/ c >= Len(grid[1]) THEN 0
  ELSE IF grid[r + 1][c + 1] = "^"
       THEN BottomTimelines(grid, r + 1, c - 1) + BottomTimelines(grid, r + 1, c + 1)
       ELSE BottomTimelines(grid, r + 1, c)

TimelinesCountBottomExits ==
  call.pc = "counted" =>
    call.result = BottomTimelines(call.grid, call.start[1] + 1, call.start[2])

\* The clicks of a rotation at which the dial points at 0.
ZeroClicks(start_pos, direction, distance) ==
  {k \in 1..distance :
     (IF direction = "L" THEN start_pos - k ELSE start_pos + k) % DialSize = 0}

\* C20: count_zeros_during_rotation of day01/solution.py returns the number of
\* clicks of the rotation at which the dial points at 0, as the click-by-click
\* count of day1.py does, and solve_part2 of both files agree on every
\* rotation list.
C20_CountZerosAgree ==
  /\ call.pc = "counted" =>
       /\ call.zeros = Cardinality(ZeroClicks(call.start_pos, call.direction, call.distance))
       /\ call.zeros = call.day1_zeros
  /\ call.pc = "solved" => call.result_part2 = call.day1_result_part2

\* C20 witness: fifty clicks to the right from 50 end on 0; day1.py counts one
\* click at 0, day01/solution.py none.
C20_Witness ==
  /\ call.pc = "counted"
  /\ call.start_pos = 50 /\ call.direction = "R" /\ call.distance = 50
  /\ call.day1_zeros = 1 /\ call.zeros = 0

\* The click-by-click count of day1.py is the number of clicks at 0.
Day1CountsZeroClicks ==
  call.pc = "counted" =>
    call.day1_zeros = Cardinality(ZeroClicks(call.start_pos, call.direction, call.distance))

\* day01/solution.py counts no click at all.
Day01CountsNothing ==
  /\ call.pc = "counted" => call.zeros = 0
  /\ call.pc = "solved" => call.result_part2 = 0

\* The num_connections closest pairs, closest first.
ClosestPairs(boxes, num_connections) ==
  LET all == distances_heap(boxes)
  IN SubSeq(all, 1, IF num_connections < Len(all) THEN num_connections ELSE Len(all))

\* The boxes joined to box i by the pairs of a list, directly or through
\* other boxes.
RECURSIVE CircuitOf(_, _)
CircuitOf(S, pairs) ==
  LET more == S \cup {p[3] : p \in {e \in SeqRange(pairs) : e[2] \in S}}
                \cup {p[2] : p \in {e \in SeqRange(pairs) : e[3] \in S}}
  IN IF more = S THEN S ELSE CircuitOf(more, pairs)

\* The circuits the pairs make of n boxes.
Circuits(n, pairs) == {CircuitOf({i}, pairs) : i \in 0..(n - 1)}

\* The product of the sizes of the three largest sets of a partition P that
\* has at least three.
RECURSIVE LargestSizes(_, _)
LargestSizes(P, k) ==
  IF k = 0 \/ P = {} THEN <<>>
  ELSE LET big == CHOOSE c \in P : \A o \in P : Cardinality(c) >= Cardinality(o)
       IN <<Cardinality(big)>> \o LargestSizes(P \ {big}, k - 1)

\* C21: solve_part1 of day08/solution.py passes exactly the num_connections
\* closest pairs to union; when they leave at least three circuits it returns
\* the product of the three largest circuit sizes; day8.py returns the same
\* value.
C21_ConnectsClosestPairs ==
  call.pc = "connected" =>
    LET closest == ClosestPairs(call.boxes, call.num_connections)
        P == Circuits(Len(call.boxes), closest)
        top == LargestSizes(P, 3)
    IN /\ call.popped = closest
       /\ Cardinality(P) >= 3 => call.result = Returned(top[1] * top[2] * top[3])
       /\ call.result = call.day8_result

\* C21 witness: boxes at x = 0, 1, 2, 5, 8 and three connections: the third
\* closest pair (0, 2) is already in one circuit; day8.py stops there and
\* returns 3 * 1 * 1, day08/solution.py pops a fourth pair and returns 0.
C21_Witness ==
  /\ call.pc = "connected"
  /\ call.boxes = << <<0, 0, 0>>, <<1, 0, 0>>, <<2, 0, 0>>, <<5, 0, 0>>, <<8, 0, 0>> >>
  /\ call.num_connections = 3
  /\ Len(call.popped) = 4 /\ Len(call.day8_popped) = 3
  /\ call.result = Returned(0) /\ call.day8_result = Returned(3)

\* day8.py passes exactly the num_connections closest pairs to union and
\* returns the product of the three largest circuit sizes.
Day8ConnectsClosestPairs ==
  call.pc = "connected" =>
    LET closest == ClosestPairs(call.boxes, call.num_connections)
        P == Circuits(Len(call.boxes), closest)
        top == LargestSizes(P, 3)
    IN /\ call.day8_popped = closest
       /\ Cardinality(P) >= 3 => call.day8_result = Returned(top[1] * top[2] * top[3])
       /\ Cardinality(P) < 3 => call.day8_result = Ended("IndexError")

\* C22: on a well-formed day-5 file parse_input returns the ranges and the
\* ingredient ids of the file, in file order, without a format error.
C22_ParsesWellFormedInput ==
  call.pc = "parsed" => call.result = Parsed(call.ranges, call.ids)

\* C22 witness: the file "0-1", blank line, "10" ends in the format error.
C22_Witness ==
  /\ call.pc = "parsed"
  /\ call.file = << <<"0", "-", "1", Newline>>, <<Newline>>, <<"1", "0", Newline>> >>
  /\ call.lines = << <<"0", "-", "1">>, <<"1", "0">> >>
  /\ call.result = FormatError

\* parse_input ends in the format error on every well-formed file.
ParseAlwaysFails == call.pc = "parsed" => call.result = FormatError

\* Had the blank line been kept, the lists of the file would be returned.
ParseOfKeptLines ==
  call.pc = "parsed" =>
    parse_lines([k \in 1..Len(call.file) |-> strip(call.file[k])])
      = Parsed(call.ranges, call.ids)

\* The area the shapes required by a region take.
RequiredAreaIn(reg) ==
  SumOver(DOMAIN shape_oris, [idx \in DOMAIN shape_oris |-> RequiredIn(reg, idx) * AreaOf(idx)])

\* C23: can_fill_region of solution.py returns False for every region whose
\* required area differs from w*h, also when it is smaller than the board.
C23_AreaMismatchReturnsFalse ==
  prog = "solution" =>
    \A i \in 1..Len(sa.results) :
       RequiredAreaIn(regions[i]) # regions[i].w * regions[i].h => sa.results[i] = "False"

\* C23 witness: one unit cell required on the 2x2 board: can_fill_region
\* returned True and solve_all counted the region.
C23_Witness ==
  /\ prog = "solution" /\ sa.pc = "done"
  /\ regions = <<[w |-> 2, h |-> 2, counts |-> <<1>>]>>
  /\ RequiredAreaIn(regions[1]) = 1
  /\ sa.results = <<"True">> /\ sa.count_good = 1

\* can_fill_region returns False whenever the required area exceeds w*h.
AreaExcessReturnsFalse ==
  prog = "solution" =>
    \A i \in 1..Len(sa.results) :
       RequiredAreaIn(regions[i]) > regions[i].w * regions[i].h => sa.results[i] = "False"

\* The instance columns of the matrix the worker built, and the number of
\* rows of an instance: the number of placements of its shape.
BuiltInstanceColumns == {c \in 0..(dlx.n_cols - 1) : c >= CurW * CurH}
PlacementOptions(c) == Len(col_rows(dlx, c))

\* C24: in the rows build_exact_cover_for_region returns, an instance whose
\* shape has fewer placements precedes every instance whose shape has more:
\* its instance column is lower and its rows come earlier.
C24_InstancesSortedByPlacementCount ==
  (prog = "solution_fixed" /\ phase = "Searching" /\ dlx # NoDLX) =>
    \A a \in BuiltInstanceColumns : \A b \in BuiltInstanceColumns :
       PlacementOptions(a) < PlacementOptions(b) =>
         /\ a < b
         /\ \A ra \in SeqRange(col_rows(dlx, a)) : \A rb \in SeqRange(col_rows(dlx, b)) : ra < rb

\* C24 witness: a unit cell and a domino on the 3x1 board: the unit cell, with
\* three placements, has the instance column 3 and the rows 0-2, the domino,
\* with two placements, the instance column 4 and the rows 3-4.
C24_Witness ==
  /\ prog = "solution_fixed" /\ phase = "Searching" /\ dlx # NoDLX
  /\ CurW = 3 /\ CurH = 1
  /\ dlx.rows = << <<0, 3>>, <<1, 3>>, <<2, 3>>, <<0, 1, 4>>, <<1, 2, 4>> >>

\* The instances of can_fill_region (solution.py) are in ascending order of
\* the number of placements of their shape.
SolutionInstancesSorted ==
  call.pc = "solution" =>
    \A a \in 1..Len(call.code_order) : \A b \in 1..Len(call.code_order) :
       a < b => call.placement_counts[call.code_order[a]]
                  <= call.placement_counts[call.code_order[b]]

\* The active columns of the matrix and the number of active rows of a column.
ActiveColumns == {c \in 0..(dlx.n_cols - 1) : dlx.col_active[c]}
ActiveRowCount(c) == Cardinality({r \in 0..(Len(dlx.rows) - 1) :
                                    dlx.row_active[r] /\ c \in SeqRange(dlx.rows[r + 1])})

\* C25: at every entry of DLX.search with an active column, choose_column
\* returns the active column with the fewest active rows, the lowest such
\* column when several have the fewest.
C25_MinimumRemainingValues ==
  (proc = "alive" /\ wpc = "call" /\ ActiveColumns # {}) =>
    LET c == choose_column(dlx)
    IN /\ c \in ActiveColumns
       /\ \A o \in ActiveColumns : ActiveRowCount(c) <= ActiveRowCount(o)
       /\ \A o \in ActiveColumns : ActiveRowCount(o) = ActiveRowCount(c) => c <= o

\* A search entry where the first active column has one active row and a
\* later active column has none: the one-row column is the one returned.
C25_Witness ==
  /\ proc = "alive" /\ wpc = "call"
  /\ \E o \in ActiveColumns :
       /\ ActiveRowCount(o) = 0
       /\ ActiveRowCount(choose_column(dlx)) = 1
       /\ choose_column(dlx) < o

\* What choose_column returns at every entry of DLX.search: the first active
\* column with at most one active row when there is one (lines 168-169), and
\* otherwise the lowest of the active columns with the fewest active rows.
ChooseColumnStopsAtOneRow ==
  (proc = "alive" /\ wpc = "call" /\ ActiveColumns # {}) =>
    LET c == choose_column(dlx)
        atMostOne == {o \in ActiveColumns : ActiveRowCount(o) <= 1}
    IN /\ c \in ActiveColumns
       /\ atMostOne # {} => (c \in atMostOne /\ \A o \in atMostOne : c <= o)
       /\ atMostOne = {} =>
            \A o \in ActiveColumns :
               /\ ActiveRowCount(c) <= ActiveRowCount(o)
               /\ ActiveRowCount(o) = ActiveRowCount(c) => c <= o

\* col_active, row_active and solution of two matrices are the same.
SameMatrixState(a, b) ==
  /\ a.col_active = b.col_active
  /\ a.row_active = b.row_active
  /\ a.solution = b.solution

\* The matrix with which the recursive call of lines 213-220 is entered when
\* row r is selected in matrix d.
Selected(d, r) ==
  [CoverColumns(d, d.rows[r + 1], <<>>).dlx EXCEPT !.solution = Append(d.solution, r)]

\* C26: when a recursive call of DLX.search has returned False, col_active,
\* row_active and solution are what they were when that call was entered
\* (the enclosing call's entry matrix with the selected row covered); at the
\* head of the loop, so after every row tried and abandoned, they are what
\* they were when the enclosing call was entered; and when the outermost call
\* has returned False the matrix is the one that was built.
C26_BacktrackRestoresState ==
  proc = "alive" =>
    /\ (wpc = "ret_false" /\ stack # <<>>) =>
          SameMatrixState(dlx, Selected(Top.entry, Top.rows_covering[Top.i]))
    /\ wpc = "loop" => SameMatrixState(dlx, Top.entry)
    /\ (wpc = "ret_false" /\ stack = <<>>) =>
          SameMatrixState(dlx, DLX_init(dlx.n_cols, dlx.rows))

\* A call two levels down has tried and abandoned a row, and a call three
\* levels down has returned False.
C26_Witness ==
  /\ proc = "alive" /\ wpc = "ret_false"
  /\ Len(stack) >= 2
  /\ Top.i >= 2
  /\ SameMatrixState(dlx, Selected(Top.entry, Top.rows_covering[Top.i]))

\* A step of a live worker whose search has observed all columns inactive:
\* the matrix and the solution are left as they are, and the step is the
\* return of True by the enclosing call, the return of the outermost call to
\* region_worker with True, or a step after the search.
FoundStep ==
  (proc = "alive" /\ proc' = "alive" /\ dlx.found) =>
    /\ dlx' = dlx
    /\ wpc \notin {"call", "loop", "ret_false"}
    /\ wpc' \notin {"call", "loop", "ret_false"}
    /\ wpc = "ret_true" =>
         \/ stack # <<>> /\ stack' = Pop /\ wpc' = "ret_true"
         \/ stack = <<>> /\ stack' = stack /\ wpc' = "put" /\ ok' = "True"
         \/ UNCHANGED <<wpc, stack>>
    /\ wpc # "ret_true" => (stack = <<>> /\ stack' = <<>>)

\* C27: once a call of DLX.search has observed all columns inactive, no row is
\* selected and nothing is covered or uncovered any more: every enclosing call
\* returns True at once, whatever rows it has left, and the cover found stays
\* in solution.
C27_FirstSolutionSemantics == [][FoundStep]_vars

\* A cover has been found while the enclosing call has rows left to try.
C27_Witness ==
  /\ proc = "alive" /\ wpc = "ret_true" /\ dlx.found
  /\ stack # <<>>
  /\ Top.i < Len(Top.rows_covering)
  /\ AllColumnsInactive(dlx)

\* The columns of the rows in solution.
SolutionColumns == UNION {SeqRange(dlx.rows[dlx.solution[k] + 1]) : k \in 1..Len(dlx.solution)}

\* C28: at the entry of every call of DLX.search, every active row covers
\* only active columns, the inactive columns are the columns of the rows in
\* solution, and no two rows in solution have a column in common.
C28_ResidualMatrix ==
  (proc = "alive" /\ wpc = "call") =>
    /\ \A r \in 0..(Len(dlx.rows) - 1) :
          dlx.row_active[r] => \A c \in SeqRange(dlx.rows[r + 1]) : dlx.col_active[c]
    /\ {c \in 0..(dlx.n_cols - 1) : ~dlx.col_active[c]} = SolutionColumns
    /\ \A j, k \in 1..Len(dlx.solution) :
          j # k => SeqRange(dlx.rows[dlx.solution[j] + 1])
                     \cap SeqRange(dlx.rows[dlx.solution[k] + 1]) = {}

\* A call entered with two rows selected, with rows and columns still active
\* and rows deactivated that are not in solution.
C28_Witness ==
  /\ proc = "alive" /\ wpc = "call"
  /\ Len(dlx.solution) >= 2
  /\ ActiveColumns # {}
  /\ \E r \in 0..(Len(dlx.rows) - 1) : dlx.row_active[r]
  /\ \E r \in 0..(Len(dlx.rows) - 1) : ~dlx.row_active[r] /\ r \notin SeqRange(dlx.solution)

\* The shapes of the call all have a cell.
CallShapesNonEmpty ==
  \A idx \in DOMAIN call.oris : call.oris[idx] # {} /\ \A o \in call.oris[idx] : o # {}

\* C29: for every region with non-empty shapes whose required area is w*h,
\* can_fill_region of solution.py and the exact-cover pipeline of
\* solution_fixed.py return the same verdict, True or False.
C29_VariantsAgree ==
  (call.pc = "variants" /\ CallShapesNonEmpty /\ call.required_area = call.w * call.h) =>
    /\ call.exact_cover = call.backtracking
    /\ call.exact_cover \in {"True", "False"}

\* A region of the required area that both variants find unsatisfiable after
\* a search: every required shape has a placement on the board.
C29_Witness ==
  /\ call.pc = "variants" /\ CallShapesNonEmpty
  /\ call.required_area = call.w * call.h
  /\ call.w * call.h >= 4
  /\ call.exact_cover = "False" /\ call.backtracking = "False"
  /\ build_exact_cover_for_region(call.w, call.h, call.oris, call.counts).kind = "ok"

\* A row is selected: a column that was active is inactive afterwards.
SelectDeactivatesColumn ==
  (proc = "alive" /\ wpc = "loop" /\ wpc' = "call") =>
    \E c \in 0..(dlx.n_cols - 1) : dlx.col_active[c] /\ ~dlx'.col_active[c]

\* C30: without a timeout and without a bound on the nodes, every call of
\* DLX.search returns: once the search is entered, the outermost call, and with
\* it every call made inside it, returns True or False; each recursive call
\* follows the selection of a row that deactivates a column that was active,
\* and the depth of the recursion never exceeds the number of columns.
C30_SearchTerminates ==
  /\ [](proc = "alive" => Len(stack) <= dlx.n_cols)
  /\ [][SelectDeactivatesColumn]_vars
  /\ (proc = "alive" /\ wpc = "call")
        ~> (wpc \in {"ret_true", "ret_false"} /\ stack = <<>>)

\* The outermost call has returned False after a search that chose a column
\* eight times or more.
C30_Witness ==
  /\ proc = "alive" /\ wpc = "put" /\ phase = "Searching" /\ ok = "False"
  /\ Cardinality({k \in 1..Len(trace.cur) : trace.cur[k][1] = "column"}) >= 8

=============================================================================
